---- MODULE Spec2Model ----
(***************************************************************************)
(* A model of the pattern examples under src/examples/python.              *)
(*                                                                         *)
(* Every function of the repository is a call on in-memory arguments, so   *)
(* the state is the state of one running call:                             *)
(*   op     the function that was called                                   *)
(*   input  its arguments (a record; structures the function mutates in    *)
(*          place, such as a list of intervals, are mutated here)          *)
(*   local  its local variables (a record named after the source's names)  *)
(*   pc     the control point: "call" before the first statement, the      *)
(*          name of a loop while it runs, "done" after the return          *)
(*   ret    the value returned (NoRet until the return)                    *)
(* Python indexes from 0 and TLA+ sequences from 1: At(a, i) reads a[i]    *)
(* with the source's index, so every index below is the source's index.    *)
(***************************************************************************)
EXTENDS Integers, Sequences, FiniteSets, TLC

VARIABLES op, input, local, pc, ret

vars == <<op, input, local, pc, ret>>

NoRet == "NoRet"
None == "None"

\* a[i] with a 0-based index, as the source writes it.
At(a, i) == a[i + 1]

\* All sequences over S of length 0..n.
SeqsUpTo(S, n) == UNION {[1..k -> S] : k \in 0..n}

\* The 0-based indices of a.
Indices(a) == 0..(Len(a) - 1)

IsSorted(a) == \A i, j \in Indices(a) : i <= j => At(a, i) <= At(a, j)

IsStrictlySorted(a) == \A i, j \in Indices(a) : i < j => At(a, i) < At(a, j)

Occurs(a, v) == \E i \in Indices(a) : At(a, i) = v

(***************************************************************************)
(* binary_search.py                                                        *)
(***************************************************************************)

\* Bounds of the binary-search inputs: arrays of length 0..MaxLen over
\* 1..MaxVal, targets in 0..MaxVal+1 (below, inside and above the values).
MaxLen == 4
MaxVal == 3

BSOps == {"binary_search", "binary_search_recursive", "find_first_occurrence",
          "find_last_occurrence", "search_insert_position", "search_rotated_array"}

InitBS ==
    /\ op \in BSOps
    /\ input \in [arr : SeqsUpTo(1..MaxVal, MaxLen), target : 0..(MaxVal + 1)]
    /\ local = [left |-> None, right |-> None]
    /\ pc = "call"
    /\ ret = NoRet

\* mid = left + (right - left) // 2
Mid(left, right) == left + (right - left) \div 2

\* ---- BasicBinarySearch.binary_search

binary_search_Call ==
    /\ op = "binary_search" /\ pc = "call"
    /\ local' = [left |-> 0, right |-> Len(input.arr) - 1]
    /\ pc' = "while"
    /\ UNCHANGED <<op, input, ret>>

\* The comparison of line 25 reversed.
binary_search_While_flipped ==
    /\ op = "binary_search" /\ pc = "while"
    /\ IF local.left <= local.right
       THEN LET mid == Mid(local.left, local.right) IN
            IF At(input.arr, mid) = input.target
            THEN /\ ret' = mid /\ pc' = "done" /\ UNCHANGED local
            ELSE IF At(input.arr, mid) > input.target
            THEN /\ local' = [local EXCEPT !.left = mid + 1]
                 /\ UNCHANGED <<pc, ret>>
            ELSE /\ local' = [local EXCEPT !.right = mid - 1]
                 /\ UNCHANGED <<pc, ret>>
       ELSE /\ ret' = -1 /\ pc' = "done" /\ UNCHANGED local
    /\ UNCHANGED <<op, input>>

\* One evaluation of `while left <= right` and, when it holds, one pass of
\* the body.
binary_search_While ==
    /\ op = "binary_search" /\ pc = "while"
    /\ IF local.left <= local.right
       THEN LET mid == Mid(local.left, local.right) IN
            IF At(input.arr, mid) = input.target
            THEN /\ ret' = mid /\ pc' = "done" /\ UNCHANGED local
            ELSE IF At(input.arr, mid) < input.target
            THEN /\ local' = [local EXCEPT !.left = mid + 1]
                 /\ UNCHANGED <<pc, ret>>
            ELSE /\ local' = [local EXCEPT !.right = mid - 1]
                 /\ UNCHANGED <<pc, ret>>
       ELSE /\ ret' = -1 /\ pc' = "done" /\ UNCHANGED local
    /\ UNCHANGED <<op, input>>

\* ---- BasicBinarySearch.binary_search_recursive
\* local.left and local.right are the parameters of the innermost call.  Each
\* recursive call is in tail position (`return binary_search_recursive(...)`),
\* so the value the innermost call returns is the value of the outermost.

\* The outermost call: left = 0, right is None and becomes len(arr) - 1.
binary_search_recursive_Call ==
    /\ op = "binary_search_recursive" /\ pc = "call"
    /\ local' = [left |-> 0, right |-> Len(input.arr) - 1]
    /\ pc' = "recurse"
    /\ UNCHANGED <<op, input, ret>>

\* The body of one call whose right is not None.
binary_search_recursive_Body ==
    /\ op = "binary_search_recursive" /\ pc = "recurse"
    /\ IF local.left > local.right
       THEN /\ ret' = -1 /\ pc' = "done" /\ UNCHANGED local
       ELSE LET mid == Mid(local.left, local.right) IN
            IF At(input.arr, mid) = input.target
            THEN /\ ret' = mid /\ pc' = "done" /\ UNCHANGED local
            ELSE IF At(input.arr, mid) < input.target
            THEN /\ local' = [left |-> mid + 1, right |-> local.right]
                 /\ UNCHANGED <<pc, ret>>
            ELSE /\ local' = [left |-> local.left, right |-> mid - 1]
                 /\ UNCHANGED <<pc, ret>>
    /\ UNCHANGED <<op, input>>

\* ---- BasicBinarySearch.find_first_occurrence

find_first_occurrence_Call ==
    /\ op = "find_first_occurrence" /\ pc = "call"
    /\ local' = [left |-> 0, right |-> Len(input.arr) - 1, result |-> -1]
    /\ pc' = "while"
    /\ UNCHANGED <<op, input, ret>>

\* Line 61 dropped: the first match found is returned.
find_first_occurrence_While_stop ==
    /\ op = "find_first_occurrence" /\ pc = "while"
    /\ IF local.left <= local.right
       THEN LET mid == Mid(local.left, local.right) IN
            IF At(input.arr, mid) = input.target
            THEN /\ local' = [local EXCEPT !.result = mid, !.right = local.left - 1]
                 /\ UNCHANGED <<pc, ret>>
            ELSE IF At(input.arr, mid) < input.target
            THEN /\ local' = [local EXCEPT !.left = mid + 1]
                 /\ UNCHANGED <<pc, ret>>
            ELSE /\ local' = [local EXCEPT !.right = mid - 1]
                 /\ UNCHANGED <<pc, ret>>
       ELSE /\ ret' = local.result /\ pc' = "done" /\ UNCHANGED local
    /\ UNCHANGED <<op, input>>

find_first_occurrence_While ==
    /\ op = "find_first_occurrence" /\ pc = "while"
    /\ IF local.left <= local.right
       THEN LET mid == Mid(local.left, local.right) IN
            IF At(input.arr, mid) = input.target
            THEN /\ local' = [local EXCEPT !.result = mid, !.right = mid - 1]
                 /\ UNCHANGED <<pc, ret>>
            ELSE IF At(input.arr, mid) < input.target
            THEN /\ local' = [local EXCEPT !.left = mid + 1]
                 /\ UNCHANGED <<pc, ret>>
            ELSE /\ local' = [local EXCEPT !.right = mid - 1]
                 /\ UNCHANGED <<pc, ret>>
       ELSE /\ ret' = local.result /\ pc' = "done" /\ UNCHANGED local
    /\ UNCHANGED <<op, input>>

\* ---- BasicBinarySearch.find_last_occurrence

find_last_occurrence_Call ==
    /\ op = "find_last_occurrence" /\ pc = "call"
    /\ local' = [left |-> 0, right |-> Len(input.arr) - 1, result |-> -1]
    /\ pc' = "while"
    /\ UNCHANGED <<op, input, ret>>

find_last_occurrence_While ==
    /\ op = "find_last_occurrence" /\ pc = "while"
    /\ IF local.left <= local.right
       THEN LET mid == Mid(local.left, local.right) IN
            IF At(input.arr, mid) = input.target
            THEN /\ local' = [local EXCEPT !.result = mid, !.left = mid + 1]
                 /\ UNCHANGED <<pc, ret>>
            ELSE IF At(input.arr, mid) < input.target
            THEN /\ local' = [local EXCEPT !.left = mid + 1]
                 /\ UNCHANGED <<pc, ret>>
            ELSE /\ local' = [local EXCEPT !.right = mid - 1]
                 /\ UNCHANGED <<pc, ret>>
       ELSE /\ ret' = local.result /\ pc' = "done" /\ UNCHANGED local
    /\ UNCHANGED <<op, input>>

\* ---- BinarySearchVariations.search_insert_position
\* The source names the array nums; the input record's field is arr.

search_insert_position_Call ==
    /\ op = "search_insert_position" /\ pc = "call"
    /\ local' = [left |-> 0, right |-> Len(input.arr)]
    /\ pc' = "while"
    /\ UNCHANGED <<op, input, ret>>

\* The comparison of line 100 as <= : converges to the rightmost position.
search_insert_position_While_le ==
    /\ op = "search_insert_position" /\ pc = "while"
    /\ IF local.left < local.right
       THEN LET mid == Mid(local.left, local.right) IN
            IF At(input.arr, mid) <= input.target
            THEN /\ local' = [local EXCEPT !.left = mid + 1]
                 /\ UNCHANGED <<pc, ret>>
            ELSE /\ local' = [local EXCEPT !.right = mid]
                 /\ UNCHANGED <<pc, ret>>
       ELSE /\ ret' = local.left /\ pc' = "done" /\ UNCHANGED local
    /\ UNCHANGED <<op, input>>

search_insert_position_While ==
    /\ op = "search_insert_position" /\ pc = "while"
    /\ IF local.left < local.right
       THEN LET mid == Mid(local.left, local.right) IN
            IF At(input.arr, mid) < input.target
            THEN /\ local' = [local EXCEPT !.left = mid + 1]
                 /\ UNCHANGED <<pc, ret>>
            ELSE /\ local' = [local EXCEPT !.right = mid]
                 /\ UNCHANGED <<pc, ret>>
       ELSE /\ ret' = local.left /\ pc' = "done" /\ UNCHANGED local
    /\ UNCHANGED <<op, input>>

\* ---- BinarySearchVariations.search_rotated_array

search_rotated_array_Call ==
    /\ op = "search_rotated_array" /\ pc = "call"
    /\ local' = [left |-> 0, right |-> Len(input.arr) - 1]
    /\ pc' = "while"
    /\ UNCHANGED <<op, input, ret>>

\* Line 119 as < : a two-element window whose mid is left is taken for
\* "right half sorted".
search_rotated_array_While_strict ==
    /\ op = "search_rotated_array" /\ pc = "while"
    /\ IF local.left <= local.right
       THEN LET mid == Mid(local.left, local.right)
                nums == input.arr
                target == input.target IN
            IF At(nums, mid) = target
            THEN /\ ret' = mid /\ pc' = "done" /\ UNCHANGED local
            ELSE IF At(nums, local.left) < At(nums, mid)
            THEN /\ local' = IF At(nums, local.left) <= target /\ target < At(nums, mid)
                             THEN [local EXCEPT !.right = mid - 1]
                             ELSE [local EXCEPT !.left = mid + 1]
                 /\ UNCHANGED <<pc, ret>>
            ELSE /\ local' = IF At(nums, mid) < target /\ target <= At(nums, local.right)
                             THEN [local EXCEPT !.left = mid + 1]
                             ELSE [local EXCEPT !.right = mid - 1]
                 /\ UNCHANGED <<pc, ret>>
       ELSE /\ ret' = -1 /\ pc' = "done" /\ UNCHANGED local
    /\ UNCHANGED <<op, input>>

search_rotated_array_While ==
    /\ op = "search_rotated_array" /\ pc = "while"
    /\ IF local.left <= local.right
       THEN LET mid == Mid(local.left, local.right)
                nums == input.arr
                target == input.target IN
            IF At(nums, mid) = target
            THEN /\ ret' = mid /\ pc' = "done" /\ UNCHANGED local
            ELSE IF At(nums, local.left) <= At(nums, mid)
            THEN \* Left half is sorted
                 /\ local' = IF At(nums, local.left) <= target /\ target < At(nums, mid)
                             THEN [local EXCEPT !.right = mid - 1]
                             ELSE [local EXCEPT !.left = mid + 1]
                 /\ UNCHANGED <<pc, ret>>
            ELSE \* Right half is sorted
                 /\ local' = IF At(nums, mid) < target /\ target <= At(nums, local.right)
                             THEN [local EXCEPT !.left = mid + 1]
                             ELSE [local EXCEPT !.right = mid - 1]
                 /\ UNCHANGED <<pc, ret>>
       ELSE /\ ret' = -1 /\ pc' = "done" /\ UNCHANGED local
    /\ UNCHANGED <<op, input>>

NextBS ==
    \/ binary_search_Call
    \/ binary_search_While
    \/ binary_search_recursive_Call
    \/ binary_search_recursive_Body
    \/ find_first_occurrence_Call
    \/ find_first_occurrence_While
    \/ find_last_occurrence_Call
    \/ find_last_occurrence_While
    \/ search_insert_position_Call
    \/ search_insert_position_While
    \/ search_rotated_array_Call
    \/ search_rotated_array_While

SpecBS == InitBS /\ [][NextBS]_vars

\* ---- the claims about binary search

Returned(f) == pc = "done" /\ op = f

\* a is a rotation, by some offset 0..Len(a)-1 (0 for the empty sequence),
\* of a strictly increasing sequence.
IsRotationOfStrictlySorted(a) ==
    \/ Len(a) = 0
    \/ \E k \in Indices(a) :
          IsStrictlySorted([i \in 1..Len(a) |-> At(a, (i - 1 + k) % Len(a))])

\* C1: on a sorted sequence, binary_search and binary_search_recursive return
\* an index holding the target when the target occurs (duplicates allowed)
\* and -1 when it does not (the empty sequence included).
C1_ExactSearch ==
    (pc = "done" /\ op \in {"binary_search", "binary_search_recursive"}
        /\ IsSorted(input.arr))
    => IF Occurs(input.arr, input.target)
       THEN ret \in Indices(input.arr) /\ At(input.arr, ret) = input.target
       ELSE ret = -1

C1_Witness ==
    /\ Returned("binary_search_recursive")
    /\ IsSorted(input.arr) /\ Len(input.arr) >= 3
    /\ Cardinality({i \in Indices(input.arr) : At(input.arr, i) = input.target}) = 2
    /\ ret \in Indices(input.arr)

\* C2: on a sorted sequence, find_first_occurrence returns the smallest index
\* holding the target and find_last_occurrence the largest; both return -1
\* when the target does not occur.
C2_FirstLast ==
    (pc = "done" /\ op \in {"find_first_occurrence", "find_last_occurrence"}
        /\ IsSorted(input.arr))
    => LET hits == {i \in Indices(input.arr) : At(input.arr, i) = input.target} IN
       IF hits = {} THEN ret = -1
       ELSE /\ ret \in hits
            /\ op = "find_first_occurrence" => \A i \in hits : ret <= i
            /\ op = "find_last_occurrence" => \A i \in hits : ret >= i

C2_Witness ==
    /\ Returned("find_first_occurrence")
    /\ IsSorted(input.arr)
    /\ Cardinality({i \in Indices(input.arr) : At(input.arr, i) = input.target}) >= 3
    /\ ret = 1

\* C3: on a sorted sequence (possibly empty, possibly with duplicates),
\* search_insert_position returns k in 0..len with everything before k
\* below the target and everything from k on at or above it.
C3_InsertPosition ==
    (Returned("search_insert_position") /\ IsSorted(input.arr))
    => /\ ret \in 0..Len(input.arr)
       /\ \A i \in Indices(input.arr) :
             /\ i < ret => At(input.arr, i) < input.target
             /\ i >= ret => At(input.arr, i) >= input.target

C3_Witness ==
    /\ Returned("search_insert_position")
    /\ IsSorted(input.arr) /\ Len(input.arr) >= 3
    /\ Cardinality({i \in Indices(input.arr) : At(input.arr, i) = input.target}) = 2
    /\ ret = 1

\* C4: on a rotation (any offset, 0 included) of a strictly increasing
\* sequence, search_rotated_array returns the index that stores the target
\* when it is present and -1 when it is absent.
C4_RotatedSearch ==
    (Returned("search_rotated_array") /\ IsRotationOfStrictlySorted(input.arr))
    => IF Occurs(input.arr, input.target)
       THEN ret \in Indices(input.arr) /\ At(input.arr, ret) = input.target
       ELSE ret = -1

C4_Witness ==
    /\ Returned("search_rotated_array")
    /\ IsRotationOfStrictlySorted(input.arr) /\ ~IsSorted(input.arr)
    /\ Len(input.arr) >= 3
    /\ ret = Len(input.arr) - 1

(***************************************************************************)
(* fast_slow_pointers.py: has_cycle, find_cycle_start                      *)
(***************************************************************************)

\* A chain is a set of ListNode objects 1..n, each with a next field that is
\* another node of the set or NullNode (Python's None), and a head that is
\* node 1 (NullNode for the empty chain).  Every assignment of next fields is
\* drawn, so the part reachable from head takes every shape: acyclic, a cycle
\* through head, a tail leading into a cycle, a self-linked node.
MaxNodes == 4
NullNode == 0

FSOps == {"has_cycle", "find_cycle_start"}

InitFS ==
    /\ op \in FSOps
    /\ \E n \in 0..MaxNodes :
          input \in [head : {IF n = 0 THEN NullNode ELSE 1},
                     next : [1..n -> 0..n]]
    /\ local = [slow |-> NullNode, fast |-> NullNode, current |-> NullNode]
    /\ pc = "call"
    /\ ret = NoRet

\* node.next
NextOf(node) == input.next[node]

\* ---- has_cycle

has_cycle_Call ==
    /\ op = "has_cycle" /\ pc = "call"
    /\ IF input.head = NullNode \/ NextOf(input.head) = NullNode
       THEN /\ ret' = FALSE /\ pc' = "done" /\ UNCHANGED local
       ELSE /\ local' = [local EXCEPT !.slow = input.head, !.fast = input.head]
            /\ pc' = "while"
            /\ UNCHANGED ret
    /\ UNCHANGED <<op, input>>

\* One evaluation of `while fast and fast.next` and one pass of the body.
has_cycle_While ==
    /\ op = "has_cycle" /\ pc = "while"
    /\ IF local.fast # NullNode /\ NextOf(local.fast) # NullNode
       THEN LET slow == NextOf(local.slow)
                fast == NextOf(NextOf(local.fast)) IN
            /\ local' = [local EXCEPT !.slow = slow, !.fast = fast]
            /\ IF slow = fast
               THEN ret' = TRUE /\ pc' = "done"
               ELSE UNCHANGED <<pc, ret>>
       ELSE /\ ret' = FALSE /\ pc' = "done" /\ UNCHANGED local
    /\ UNCHANGED <<op, input>>

\* ---- find_cycle_start

find_cycle_start_Call ==
    /\ op = "find_cycle_start" /\ pc = "call"
    /\ IF input.head = NullNode \/ NextOf(input.head) = NullNode
       THEN /\ ret' = NullNode /\ pc' = "done" /\ UNCHANGED local
       ELSE /\ local' = [local EXCEPT !.slow = input.head, !.fast = input.head]
            /\ pc' = "while"
            /\ UNCHANGED ret
    /\ UNCHANGED <<op, input>>

\* Lines 76-79 dropped: the node where the cursors met is returned.
find_cycle_start_While_meeting ==
    /\ op = "find_cycle_start" /\ pc = "while"
    /\ IF local.fast # NullNode /\ NextOf(local.fast) # NullNode
       THEN LET slow == NextOf(local.slow)
                fast == NextOf(NextOf(local.fast)) IN
            /\ local' = [local EXCEPT !.slow = slow, !.fast = fast]
            /\ IF slow = fast
               THEN ret' = slow /\ pc' = "done"
               ELSE UNCHANGED <<pc, ret>>
       ELSE /\ ret' = NullNode /\ pc' = "done" /\ UNCHANGED local
    /\ UNCHANGED <<op, input>>

\* The first loop (lines 66-73): break when the cursors meet, and then
\* `current = head` of line 76; the else clause returns None.
find_cycle_start_While ==
    /\ op = "find_cycle_start" /\ pc = "while"
    /\ IF local.fast # NullNode /\ NextOf(local.fast) # NullNode
       THEN LET slow == NextOf(local.slow)
                fast == NextOf(NextOf(local.fast)) IN
            IF slow = fast
            THEN /\ local' = [slow |-> slow, fast |-> fast, current |-> input.head]
                 /\ pc' = "find"
                 /\ UNCHANGED ret
            ELSE /\ local' = [local EXCEPT !.slow = slow, !.fast = fast]
                 /\ UNCHANGED <<pc, ret>>
       ELSE /\ ret' = NullNode /\ pc' = "done" /\ UNCHANGED local
    /\ UNCHANGED <<op, input>>

\* Line 78 left out: current stays at head while slow goes on.
find_cycle_start_Find_stay ==
    /\ op = "find_cycle_start" /\ pc = "find"
    /\ IF local.current # local.slow
       THEN /\ local' = [local EXCEPT !.slow = NextOf(local.slow)]
            /\ UNCHANGED <<pc, ret>>
       ELSE /\ ret' = local.current /\ pc' = "done" /\ UNCHANGED local
    /\ UNCHANGED <<op, input>>

\* The second loop (lines 77-81).
find_cycle_start_Find ==
    /\ op = "find_cycle_start" /\ pc = "find"
    /\ IF local.current # local.slow
       THEN /\ local' = [local EXCEPT !.current = NextOf(local.current),
                                      !.slow = NextOf(local.slow)]
            /\ UNCHANGED <<pc, ret>>
       ELSE /\ ret' = local.current /\ pc' = "done" /\ UNCHANGED local
    /\ UNCHANGED <<op, input>>

NextFS ==
    \/ has_cycle_Call
    \/ has_cycle_While
    \/ find_cycle_start_Call
    \/ find_cycle_start_While
    \/ find_cycle_start_Find

SpecFS == InitFS /\ [][NextFS]_vars

\* ---- the claim about cycle detection

\* The node k links after node x (NullNode once the chain has ended).
RECURSIVE NodeAfter(_, _)
NodeAfter(x, k) ==
    IF k = 0 \/ x = NullNode THEN x ELSE NodeAfter(input.next[x], k - 1)

NumNodes == Cardinality(DOMAIN input.next)

\* x is reachable from itself by one or more links.
OnCycle(x) == x # NullNode /\ \E k \in 1..NumNodes : NodeAfter(x, k) = x

\* Some node of the chain that starts at head is reachable from itself.
ChainHasCycle == \E k \in 0..NumNodes : OnCycle(NodeAfter(input.head, k))

\* The first node of the chain that lies on the cycle.
CycleStart ==
    LET first == CHOOSE k \in 0..NumNodes :
                    /\ OnCycle(NodeAfter(input.head, k))
                    /\ \A j \in 0..(k - 1) : ~OnCycle(NodeAfter(input.head, j))
    IN  NodeAfter(input.head, first)

\* C5: has_cycle returns True exactly when some node of the chain is
\* reachable from itself; find_cycle_start returns the first node of the
\* chain that lies on the cycle (head and a self-linked node included) and
\* None on an acyclic chain.
C5_CycleDetection ==
    /\ Returned("has_cycle") => (ret = ChainHasCycle)
    /\ Returned("find_cycle_start") =>
          (ret = IF ChainHasCycle THEN CycleStart ELSE NullNode)

\* A tail of two nodes leading into a cycle of two nodes.
C5_Witness ==
    /\ Returned("find_cycle_start")
    /\ ret = NodeAfter(input.head, 2)
    /\ NodeAfter(ret, 2) = ret /\ NodeAfter(ret, 1) # ret
    /\ ~OnCycle(NextOf(input.head))

(***************************************************************************)
(* merge_intervals.py: merge_intervals                                     *)
(***************************************************************************)

\* An interval is a two-element Python list, an object with an identity:
\* input.obj maps each object to its current <<start, end>>, and a list of
\* intervals (the argument, merged, the returned list) is a sequence of
\* object references.  input.given is the value of the argument when the
\* caller built it, before any call; input.first is <<>> until a first call
\* has returned and then holds the value of what it returned.
MaxT == 3
MaxIntervals == 3

\* The intervals [start, end] with 0 <= start <= end <= MaxT.
Intervals == {iv \in [1..2 -> 0..MaxT] : At(iv, 0) <= At(iv, 1)}

\* The values of a list of interval objects.
Deref(obj, refs) == [i \in 1..Len(refs) |-> obj[refs[i]]]

InitMI ==
    /\ op = "merge_intervals"
    /\ \E L \in SeqsUpTo(Intervals, MaxIntervals) :
          input = [intervals |-> [i \in 1..Len(L) |-> i],
                   obj |-> L,
                   given |-> L,
                   first |-> <<>>]
    /\ local = [merged |-> <<>>, i |-> 0]
    /\ pc = "call"
    /\ ret = NoRet

\* list.sort(key=lambda x: x[0]) is a stable sort: r goes after every element
\* of the sorted list s whose key is at most its own.
InsertByStart(obj, s, r) ==
    LET k == Cardinality({i \in 1..Len(s) : At(obj[s[i]], 0) <= At(obj[r], 0)})
    IN  SubSeq(s, 1, k) \o <<r>> \o SubSeq(s, k + 1, Len(s))

RECURSIVE SortByStart(_, _)
SortByStart(obj, refs) ==
    IF refs = <<>> THEN <<>>
    ELSE InsertByStart(obj, SortByStart(obj, SubSeq(refs, 1, Len(refs) - 1)),
                       refs[Len(refs)])

Max(a, b) == IF a >= b THEN a ELSE b

\* Lines 27-32: the empty list returns a new empty list; otherwise the
\* argument is sorted in place and merged starts as [intervals[0]].
merge_intervals_Call ==
    /\ op = "merge_intervals" /\ pc = "call"
    /\ IF input.intervals = <<>>
       THEN /\ ret' = <<>> /\ pc' = "done" /\ UNCHANGED <<input, local>>
       ELSE LET sorted == SortByStart(input.obj, input.intervals) IN
            /\ input' = [input EXCEPT !.intervals = sorted]
            /\ local' = [merged |-> <<At(sorted, 0)>>, i |-> 1]
            /\ pc' = "for"
            /\ UNCHANGED ret
    /\ UNCHANGED op

\* Line 38 as < : intervals that only touch are kept apart.
merge_intervals_For_strict ==
    /\ op = "merge_intervals" /\ pc = "for"
    /\ IF local.i < Len(input.intervals)
       THEN LET current == At(input.intervals, local.i)
                last_merged == local.merged[Len(local.merged)] IN
            /\ IF At(input.obj[current], 0) < At(input.obj[last_merged], 1)
               THEN /\ input' = [input EXCEPT !.obj[last_merged][2] =
                                    Max(At(input.obj[last_merged], 1),
                                        At(input.obj[current], 1))]
                    /\ local' = [local EXCEPT !.i = local.i + 1]
               ELSE /\ local' = [merged |-> Append(local.merged, current),
                                 i |-> local.i + 1]
                    /\ UNCHANGED input
            /\ UNCHANGED <<pc, ret>>
       ELSE /\ ret' = local.merged /\ pc' = "done" /\ UNCHANGED <<input, local>>
    /\ UNCHANGED op

\* Line 40 writing the end of merged[0] instead of merged[-1].
merge_intervals_For_head ==
    /\ op = "merge_intervals" /\ pc = "for"
    /\ IF local.i < Len(input.intervals)
       THEN LET current == At(input.intervals, local.i)
                last_merged == local.merged[Len(local.merged)]
                head == At(local.merged, 0) IN
            /\ IF At(input.obj[current], 0) <= At(input.obj[last_merged], 1)
               THEN /\ input' = [input EXCEPT !.obj[head][2] =
                                    Max(At(input.obj[last_merged], 1),
                                        At(input.obj[current], 1))]
                    /\ local' = [local EXCEPT !.i = local.i + 1]
               ELSE /\ local' = [merged |-> Append(local.merged, current),
                                 i |-> local.i + 1]
                    /\ UNCHANGED input
            /\ UNCHANGED <<pc, ret>>
       ELSE /\ ret' = local.merged /\ pc' = "done" /\ UNCHANGED <<input, local>>
    /\ UNCHANGED op

\* Lines 34-45: one step of `for current in intervals[1:]` (local.i is the
\* index of current in intervals), or the return once the slice is used up.
\* last_merged and current are references: line 40 writes the end of the
\* object that is also an element of the caller's list.
merge_intervals_For ==
    /\ op = "merge_intervals" /\ pc = "for"
    /\ IF local.i < Len(input.intervals)
       THEN LET current == At(input.intervals, local.i)
                last_merged == local.merged[Len(local.merged)] IN
            /\ IF At(input.obj[current], 0) <= At(input.obj[last_merged], 1)
               THEN /\ input' = [input EXCEPT !.obj[last_merged][2] =
                                    Max(At(input.obj[last_merged], 1),
                                        At(input.obj[current], 1))]
                    /\ local' = [local EXCEPT !.i = local.i + 1]
               ELSE /\ local' = [merged |-> Append(local.merged, current),
                                 i |-> local.i + 1]
                    /\ UNCHANGED input
            /\ UNCHANGED <<pc, ret>>
       ELSE /\ ret' = local.merged /\ pc' = "done" /\ UNCHANGED <<input, local>>
    /\ UNCHANGED op

\* A caller passes the list a first call returned to a second call:
\* merge_intervals(merge_intervals(L)).
merge_intervals_Again ==
    /\ op = "merge_intervals" /\ pc = "done" /\ input.first = <<>>
    /\ input' = [input EXCEPT !.intervals = ret,
                              !.first = <<Deref(input.obj, ret)>>]
    /\ local' = [merged |-> <<>>, i |-> 0]
    /\ pc' = "call"
    /\ ret' = NoRet
    /\ UNCHANGED op

NextMI ==
    \/ merge_intervals_Call
    \/ merge_intervals_For
    \/ merge_intervals_Again

SpecMI == InitMI /\ [][NextMI]_vars

\* ---- the claims about merge_intervals

\* The points of 0..MaxT and the midpoints between them, doubled: [s, e]
\* covers the doubled point p when 2s <= p <= 2e.  Two unions of intervals
\* with integer endpoints are equal when they cover the same doubled points.
Covered(ivs) ==
    {p \in 0..(2 * MaxT) :
        \E i \in 1..Len(ivs) : 2 * At(ivs[i], 0) <= p /\ p <= 2 * At(ivs[i], 1)}

\* C6: for intervals with start <= end in any order, merge_intervals returns
\* a list sorted by start in which each start is strictly greater than the
\* previous end (touching intervals are merged) and that covers exactly the
\* points the input covers.
C6_MergeResult ==
    (Returned("merge_intervals") /\ input.first = <<>>)
    => LET R == Deref(input.obj, ret) IN
       /\ \A i \in 1..(Len(R) - 1) : At(R[i + 1], 0) > At(R[i], 1)
       /\ \A i, j \in 1..Len(R) : i <= j => At(R[i], 0) <= At(R[j], 0)
       /\ Covered(R) = Covered(input.given)

\* An unsorted input with a touching pair and a gap.
C6_Witness ==
    /\ Returned("merge_intervals") /\ input.first = <<>>
    /\ Len(input.given) = 3 /\ Len(ret) = 2
    /\ ~IsSorted([i \in 1..3 |-> At(input.given[i], 0)])
    /\ \E i, j \in 1..3 : At(input.given[i], 1) = At(input.given[j], 0)
                          /\ At(input.given[i], 0) < At(input.given[j], 1)
                          /\ At(input.given[j], 0) > At(input.given[i], 0)

\* C7: merge_intervals(merge_intervals(L)) equals merge_intervals(L): the
\* second call returns a list equal to the one the first call returned.
C7_MergeIdempotent ==
    (Returned("merge_intervals") /\ input.first # <<>>)
    => Deref(input.obj, ret) = input.first[1]

\* The first call merged something and left more than one interval.
C7_Witness ==
    /\ Returned("merge_intervals") /\ input.first # <<>>
    /\ Len(input.given) = 3 /\ Len(input.first[1]) = 2
    /\ Len(ret) = 2

(***************************************************************************)
(* sliding_window.py: SlidingWindow.min_window_substring                   *)
(***************************************************************************)

\* A string is a sequence of characters.  s has length 0..MaxS and t has
\* length 0..MaxPat, both over Alphabet.
MaxS == 4
MaxPat == 3
Alphabet == {"a", "b", "c"}

\* The number of occurrences of c in the string w.
Count(w, c) == Cardinality({i \in 1..Len(w) : w[i] = c})

\* s[i:j], the characters with indices i..j-1.
Slice(w, i, j) == SubSeq(w, i + 1, j)

InitSW ==
    /\ op = "min_window_substring"
    /\ input \in [s : SeqsUpTo(Alphabet, MaxS), t : SeqsUpTo(Alphabet, MaxPat)]
    /\ local = [required |-> [c \in Alphabet |-> 0],
                window_counts |-> [c \in Alphabet |-> 0],
                left |-> 0, right |-> 0, formed |-> 0, ans |-> <<>>]
    /\ pc = "call"
    /\ ret = NoRet

\* The defaultdicts required and window_counts are functions on Alphabet, a
\* character that was never counted reading 0.  `char in required` holds for
\* the characters of t, the only keys required ever gets (every read of
\* required[char] is guarded by `char in required`), and each has a count of
\* at least 1.
InRequired(required, char) == required[char] > 0

\* len(required)
LenRequired(required) == Cardinality({c \in Alphabet : InRequired(required, c)})

\* ans is (float('inf'), None, None) as <<>>, and (length, left, right) as a
\* triple.  `right - left + 1 < ans[0]`:
LessThanAns(n, ans) == ans = <<>> \/ n < ans[1]

\* Lines 85-98.
min_window_substring_Call ==
    /\ op = "min_window_substring" /\ pc = "call"
    /\ IF input.s = <<>> \/ input.t = <<>>
       THEN /\ ret' = <<>> /\ pc' = "done" /\ UNCHANGED local
       ELSE /\ local' = [required |-> [c \in Alphabet |-> Count(input.t, c)],
                         window_counts |-> [c \in Alphabet |-> 0],
                         left |-> 0, right |-> 0, formed |-> 0, ans |-> <<>>]
            /\ pc' = "while"
            /\ UNCHANGED ret
    /\ UNCHANGED <<op, input>>

\* Line 106 as >= : formed grows on every further occurrence.
min_window_substring_While_ge ==
    /\ op = "min_window_substring" /\ pc = "while"
    /\ IF local.right < Len(input.s)
       THEN LET char == At(input.s, local.right)
                counts == [local.window_counts EXCEPT ![char] = @ + 1] IN
            /\ local' = [local EXCEPT
                  !.window_counts = counts,
                  !.formed = IF InRequired(local.required, char)
                                /\ counts[char] >= local.required[char]
                             THEN @ + 1 ELSE @]
            /\ pc' = "contract"
            /\ UNCHANGED ret
       ELSE /\ ret' = IF local.ans = <<>> THEN <<>>
                      ELSE Slice(input.s, local.ans[2], local.ans[3] + 1)
            /\ pc' = "done"
            /\ UNCHANGED local
    /\ UNCHANGED <<op, input>>

\* Lines 100-107 and 126: one evaluation of `while right < len(s)`; when it
\* holds the character at right enters the window, otherwise the function
\* returns.
min_window_substring_While ==
    /\ op = "min_window_substring" /\ pc = "while"
    /\ IF local.right < Len(input.s)
       THEN LET char == At(input.s, local.right)
                counts == [local.window_counts EXCEPT ![char] = @ + 1] IN
            /\ local' = [local EXCEPT
                  !.window_counts = counts,
                  !.formed = IF InRequired(local.required, char)
                                /\ counts[char] = local.required[char]
                             THEN @ + 1 ELSE @]
            /\ pc' = "contract"
            /\ UNCHANGED ret
       ELSE /\ ret' = IF local.ans = <<>> THEN <<>>
                      ELSE Slice(input.s, local.ans[2], local.ans[3] + 1)
            /\ pc' = "done"
            /\ UNCHANGED local
    /\ UNCHANGED <<op, input>>

\* Line 119 left out: the character that leaves the window stays counted.
min_window_substring_Contract_keep ==
    /\ op = "min_window_substring" /\ pc = "contract"
    /\ IF local.left <= local.right /\ local.formed = LenRequired(local.required)
       THEN LET char == At(input.s, local.left)
                counts == local.window_counts IN
            /\ local' = [local EXCEPT
                  !.ans = IF LessThanAns(local.right - local.left + 1, local.ans)
                          THEN <<local.right - local.left + 1, local.left, local.right>>
                          ELSE @,
                  !.window_counts = counts,
                  !.formed = IF InRequired(local.required, char)
                                /\ counts[char] < local.required[char]
                             THEN @ - 1 ELSE @,
                  !.left = @ + 1]
            /\ UNCHANGED pc
       ELSE /\ local' = [local EXCEPT !.right = @ + 1]
            /\ pc' = "while"
    /\ UNCHANGED <<op, input, ret>>

\* Lines 110-124: one evaluation of `while left <= right and formed ==
\* len(required)`; when it holds one pass of the body, otherwise right += 1.
min_window_substring_Contract ==
    /\ op = "min_window_substring" /\ pc = "contract"
    /\ IF local.left <= local.right /\ local.formed = LenRequired(local.required)
       THEN LET char == At(input.s, local.left)
                counts == [local.window_counts EXCEPT ![char] = @ - 1] IN
            /\ local' = [local EXCEPT
                  !.ans = IF LessThanAns(local.right - local.left + 1, local.ans)
                          THEN <<local.right - local.left + 1, local.left, local.right>>
                          ELSE @,
                  !.window_counts = counts,
                  !.formed = IF InRequired(local.required, char)
                                /\ counts[char] < local.required[char]
                             THEN @ - 1 ELSE @,
                  !.left = @ + 1]
            /\ UNCHANGED pc
       ELSE /\ local' = [local EXCEPT !.right = @ + 1]
            /\ pc' = "while"
    /\ UNCHANGED <<op, input, ret>>

NextSW ==
    \/ min_window_substring_Call
    \/ min_window_substring_While
    \/ min_window_substring_Contract

SpecSW == InitSW /\ [][NextSW]_vars

\* ---- the claim about min_window_substring

\* w contains every character of t at least as many times as t does.
Covers(w, t) == \A c \in Alphabet : Count(w, c) >= Count(t, c)

\* The windows <<i, j>> of s, s[i..j] inclusive, that cover t.
CoveringWindows(s, t) ==
    {w \in Indices(s) \X Indices(s) :
        w[1] <= w[2] /\ Covers(Slice(s, w[1], w[2] + 1), t)}

\* C8: min_window_substring(s, t) returns a substring of s of minimum length
\* that contains every character of t at least as often as t does, and the
\* empty string when there is none or when s or t is empty.
C8_MinWindow ==
    Returned("min_window_substring")
    => LET wins == CoveringWindows(input.s, input.t) IN
       IF input.s = <<>> \/ input.t = <<>> \/ wins = {}
       THEN ret = <<>>
       ELSE /\ \E w \in wins : ret = Slice(input.s, w[1], w[2] + 1)
            /\ \A w \in wins : Len(ret) <= w[2] - w[1] + 1

\* t repeats a character, and the minimum window is not a prefix of s.
C8_Witness ==
    /\ Returned("min_window_substring")
    /\ Len(input.s) = 4 /\ Len(input.t) = 3 /\ Len(ret) = 3
    /\ \E c \in Alphabet : Count(input.t, c) = 2
    /\ ret = Slice(input.s, 1, 4)
    /\ ~Covers(Slice(input.s, 0, 3), input.t)

(***************************************************************************)
(* subsets_backtracking.py: SubsetGeneration.subsets,                      *)
(* ConstraintSatisfaction.solve_n_queens                                   *)
(***************************************************************************)

\* The recursion of the nested function backtrack is an explicit stack of
\* frames in local.stack, the innermost call last.  pc = "backtrack" is the
\* entry of the innermost call and pc = "for" the head of its loop.
\*
\* subsets: nums has length 0..MaxNums over 1..MaxNums.  A frame is
\* [start, i]; current_subset is the one list object every call shares, and
\* result holds the copies current_subset[:] made on entry.
\*
\* solve_n_queens: n is 0..MaxQueens.  A frame is [row, col].  Lists are
\* objects: local.lists[1] is board and every board[:] is a new object at the
\* end of local.lists; result holds references into local.lists.  A row is an
\* immutable string, a sequence of "." and "Q".
MaxNums == 3
MaxQueens == 5

BTOps == {"subsets", "solve_n_queens"}

InitBT ==
    /\ op \in BTOps
    /\ \/ op = "subsets" /\ input \in [nums : SeqsUpTo(1..MaxNums, MaxNums)]
       \/ op = "solve_n_queens" /\ input \in [n : 0..MaxQueens]
    /\ local = [result |-> <<>>, stack |-> <<>>]
    /\ pc = "call"
    /\ ret = NoRet

\* The innermost frame, and the stack with the innermost frame changed or
\* removed.
Top(stack) == stack[Len(stack)]
Pop(stack) == SubSeq(stack, 1, Len(stack) - 1)
SetTop(stack, frame) == [stack EXCEPT ![Len(stack)] = frame]

\* ---- SubsetGeneration.subsets

\* Lines 17 and 29: result = [] and backtrack(0, []).
subsets_Call ==
    /\ op = "subsets" /\ pc = "call"
    /\ local' = [result |-> <<>>, current_subset |-> <<>>,
                 stack |-> <<[start |-> 0, i |-> 0]>>]
    /\ pc' = "backtrack"
    /\ UNCHANGED <<op, input, ret>>

\* Line 21, and the loop variable set to range's first value.
subsets_backtrack_Enter ==
    /\ op = "subsets" /\ pc = "backtrack"
    /\ local' = [local EXCEPT
          !.result = Append(@, local.current_subset),
          !.stack = SetTop(@, [Top(@) EXCEPT !.i = Top(local.stack).start])]
    /\ pc' = "for"
    /\ UNCHANGED <<op, input, ret>>

\* Line 26 as backtrack(start + 1, current_subset).
subsets_backtrack_For_start ==
    /\ op = "subsets" /\ pc = "for"
    /\ LET frame == Top(local.stack) IN
       IF frame.i < Len(input.nums)
       THEN /\ local' = [local EXCEPT
                  !.current_subset = Append(@, At(input.nums, frame.i)),
                  !.stack = Append(@, [start |-> frame.start + 1, i |-> 0])]
            /\ pc' = "backtrack"
            /\ UNCHANGED ret
       ELSE IF Len(local.stack) = 1
       THEN /\ local' = [local EXCEPT !.stack = <<>>]
            /\ ret' = local.result
            /\ pc' = "done"
       ELSE LET caller == local.stack[Len(local.stack) - 1] IN
            /\ local' = [local EXCEPT
                  !.current_subset = SubSeq(@, 1, Len(@) - 1),
                  !.stack = SetTop(Pop(@), [caller EXCEPT !.i = @ + 1])]
            /\ UNCHANGED <<pc, ret>>
    /\ UNCHANGED <<op, input>>

\* Lines 24-27 and 30.  While range(start, len(nums)) lasts: append nums[i]
\* and call backtrack(i + 1, current_subset).  When it is used up the call
\* returns: the outermost call to subsets, which returns result; any other to
\* line 27 of its caller, which pops current_subset and goes on to its next i.
subsets_backtrack_For ==
    /\ op = "subsets" /\ pc = "for"
    /\ LET frame == Top(local.stack) IN
       IF frame.i < Len(input.nums)
       THEN /\ local' = [local EXCEPT
                  !.current_subset = Append(@, At(input.nums, frame.i)),
                  !.stack = Append(@, [start |-> frame.i + 1, i |-> 0])]
            /\ pc' = "backtrack"
            /\ UNCHANGED ret
       ELSE IF Len(local.stack) = 1
       THEN /\ local' = [local EXCEPT !.stack = <<>>]
            /\ ret' = local.result
            /\ pc' = "done"
       ELSE LET caller == local.stack[Len(local.stack) - 1] IN
            /\ local' = [local EXCEPT
                  !.current_subset = SubSeq(@, 1, Len(@) - 1),
                  !.stack = SetTop(Pop(@), [caller EXCEPT !.i = @ + 1])]
            /\ UNCHANGED <<pc, ret>>
    /\ UNCHANGED <<op, input>>

\* ---- ConstraintSatisfaction.solve_n_queens

\* The list object board.
Board(l) == l.lists[1]

\* board[row][:col] + ch + board[row][col + 1:], assigned to board[row].
SetCell(board, row, col, ch) ==
    [board EXCEPT ![row + 1] = SubSeq(@, 1, col) \o <<ch>> \o SubSeq(@, col + 2, Len(@))]

\* board[i][j]
Cell(board, i, j) == At(At(board, i), j)

\* Lines 184-204.  The three loops visit the cells of column col above row,
\* then the cells (row - d, col - d) while both indices are >= 0, then the
\* cells (row - d, col + d) while the row is >= 0 and the column < n.
is_safe(board, n, row, col) ==
    /\ \A i \in 0..(row - 1) : Cell(board, i, col) # "Q"
    /\ \A d \in 1..row : col - d >= 0 => Cell(board, row - d, col - d) # "Q"
    /\ \A d \in 1..row : col + d < n => Cell(board, row - d, col + d) # "Q"

\* Lines 181-182 and 219.
solve_n_queens_Call ==
    /\ op = "solve_n_queens" /\ pc = "call"
    /\ local' = [result |-> <<>>,
                 lists |-> <<[r \in 1..input.n |-> [c \in 1..input.n |-> "."]]>>,
                 stack |-> <<[row |-> 0, col |-> 0]>>]
    /\ pc' = "backtrack"
    /\ UNCHANGED <<op, input, ret>>

\* The innermost call of backtrack returns to line 217 of its caller: the
\* caller removes its queen and its loop goes on to the next col.
solve_n_queens_Resume(l) ==
    LET caller == l.stack[Len(l.stack) - 1] IN
    [l EXCEPT
        !.lists[1] = SetCell(@, caller.row, caller.col, "."),
        !.stack = SetTop(Pop(@), [caller EXCEPT !.col = @ + 1])]

\* Line 208 as result.append(board): the list object itself is recorded.
solve_n_queens_backtrack_Enter_alias ==
    /\ op = "solve_n_queens" /\ pc = "backtrack"
    /\ IF Top(local.stack).row = input.n
       THEN LET found == [local EXCEPT !.result = Append(@, 1)] IN
            IF Len(local.stack) = 1
            THEN /\ local' = [found EXCEPT !.stack = <<>>]
                 /\ ret' = found.result
                 /\ pc' = "done"
            ELSE /\ local' = solve_n_queens_Resume(found)
                 /\ pc' = "for"
                 /\ UNCHANGED ret
       ELSE /\ local' = [local EXCEPT !.stack = SetTop(@, [Top(@) EXCEPT !.col = 0])]
            /\ pc' = "for"
            /\ UNCHANGED ret
    /\ UNCHANGED <<op, input>>

\* Lines 207-211.  With row == n a copy of board, a new list object, is
\* appended to result and the call returns (to solve_n_queens when it is the
\* outermost, which is the case n = 0).  Otherwise the loop over col starts.
solve_n_queens_backtrack_Enter ==
    /\ op = "solve_n_queens" /\ pc = "backtrack"
    /\ IF Top(local.stack).row = input.n
       THEN LET found == [local EXCEPT
                    !.lists = Append(@, Board(local)),
                    !.result = Append(@, Len(local.lists) + 1)] IN
            IF Len(local.stack) = 1
            THEN /\ local' = [found EXCEPT !.stack = <<>>]
                 /\ ret' = found.result
                 /\ pc' = "done"
            ELSE /\ local' = solve_n_queens_Resume(found)
                 /\ pc' = "for"
                 /\ UNCHANGED ret
       ELSE /\ local' = [local EXCEPT !.stack = SetTop(@, [Top(@) EXCEPT !.col = 0])]
            /\ pc' = "for"
            /\ UNCHANGED ret
    /\ UNCHANGED <<op, input>>

\* Lines 211-217 and 220.  While range(n) lasts: a safe col gets the queen
\* and backtrack(row + 1) is called, an unsafe one is skipped.  When it is
\* used up the call returns: the outermost to solve_n_queens, which returns
\* result.
solve_n_queens_backtrack_For ==
    /\ op = "solve_n_queens" /\ pc = "for"
    /\ LET frame == Top(local.stack) IN
       IF frame.col < input.n
       THEN IF is_safe(Board(local), input.n, frame.row, frame.col)
            THEN /\ local' = [local EXCEPT
                       !.lists[1] = SetCell(@, frame.row, frame.col, "Q"),
                       !.stack = Append(@, [row |-> frame.row + 1, col |-> 0])]
                 /\ pc' = "backtrack"
                 /\ UNCHANGED ret
            ELSE /\ local' = [local EXCEPT
                       !.stack = SetTop(@, [frame EXCEPT !.col = @ + 1])]
                 /\ UNCHANGED <<pc, ret>>
       ELSE IF Len(local.stack) = 1
       THEN /\ local' = [local EXCEPT !.stack = <<>>]
            /\ ret' = local.result
            /\ pc' = "done"
       ELSE /\ local' = solve_n_queens_Resume(local)
            /\ UNCHANGED <<pc, ret>>
    /\ UNCHANGED <<op, input>>

NextBT ==
    \/ subsets_Call
    \/ subsets_backtrack_Enter
    \/ subsets_backtrack_For
    \/ solve_n_queens_Call
    \/ solve_n_queens_backtrack_Enter
    \/ solve_n_queens_backtrack_For

SpecBT == InitBT /\ [][NextBT]_vars

\* ---- the claims about backtracking

\* The set of the elements of a list.
Elements(l) == {l[i] : i \in 1..Len(l)}

\* C9: for n pairwise distinct values, subsets returns exactly 2^n lists,
\* every subset of the input appears exactly once, and no two returned lists
\* contain the same elements.
C9_Subsets ==
    (Returned("subsets") /\ Cardinality(Elements(input.nums)) = Len(input.nums))
    => /\ Len(ret) = 2 ^ Len(input.nums)
       /\ \A S \in SUBSET Elements(input.nums) :
             Cardinality({k \in 1..Len(ret) : Elements(ret[k]) = S}) = 1
       /\ \A j, k \in 1..Len(ret) : j # k => Elements(ret[j]) # Elements(ret[k])

C9_Witness ==
    /\ Returned("subsets")
    /\ Cardinality(Elements(input.nums)) = 3
    /\ Len(input.nums) = 3
    /\ Len(ret) = 8

\* The placements of n queens, one per row (p[row] is the queen's column),
\* in which no two share a column or a diagonal.
ValidPlacements(n) ==
    {p \in [0..(n - 1) -> 0..(n - 1)] :
        \A r1, r2 \in 0..(n - 1) :
            r1 < r2 => /\ p[r1] # p[r2]
                       /\ p[r1] - p[r2] # r2 - r1
                       /\ p[r2] - p[r1] # r2 - r1}

\* The board, a list of row strings, of a placement.
PlacementBoard(p, n) ==
    [r \in 1..n |-> [c \in 1..n |-> IF p[r - 1] = c - 1 THEN "Q" ELSE "."]]

\* The boards solve_n_queens returned are the valid placements, each once.
C10_ExactlyTheSolutions ==
    Returned("solve_n_queens")
    => LET valid == ValidPlacements(input.n)
           boards == [k \in 1..Len(ret) |-> local.lists[ret[k]]] IN
       /\ \A p \in valid :
             Cardinality({k \in 1..Len(ret) :
                             boards[k] = PlacementBoard(p, input.n)}) = 1
       /\ \A k \in 1..Len(ret) :
             \E p \in valid : boards[k] = PlacementBoard(p, input.n)

\* No step changes a board that result already holds.
C10_SnapshotsKept ==
    op = "solve_n_queens" =>
        \A k \in 1..Len(local.result) :
            local'.lists[local.result[k]] = local.lists[local.result[k]]

\* C10: solve_n_queens(n) returns exactly the placements of n queens, one per
\* row, with no shared column or diagonal, each once and nothing else, and
\* every board it recorded stays as it was recorded through the backtracking
\* that follows.
C10_NQueens == [] C10_ExactlyTheSolutions /\ [][C10_SnapshotsKept]_vars

\* n = 4 has returned its 2 solutions.
C10_Witness ==
    /\ Returned("solve_n_queens")
    /\ input.n = 4
    /\ Len(ret) = 2
    /\ local.lists[ret[1]] # local.lists[ret[2]]
    /\ \A r \in 1..4 : Board(local)[r] = <<".", ".", ".", ".">>

(***************************************************************************)
(* two_pointers.py: TwoPointers.sort_colors                                *)
(***************************************************************************)

\* nums is a list of length 0..MaxColors over {0, 1, 2}, sorted in place:
\* input.nums is the caller's list.  input.given is its value before any
\* call; input.first is <<>> until a first call has returned and then holds
\* the value of the list it left.
MaxColors == 5

InitSC ==
    /\ op = "sort_colors"
    /\ \E L \in SeqsUpTo({0, 1, 2}, MaxColors) :
          input = [nums |-> L, given |-> L, first |-> <<>>]
    /\ local = [left |-> 0, right |-> 0, current |-> 0]
    /\ pc = "call"
    /\ ret = NoRet

\* a[i], a[j] = a[j], a[i]
Swap(a, i, j) == [a EXCEPT ![i + 1] = At(a, j), ![j + 1] = At(a, i)]

\* Lines 181-182.
sort_colors_Call ==
    /\ op = "sort_colors" /\ pc = "call"
    /\ local' = [left |-> 0, right |-> Len(input.nums) - 1, current |-> 0]
    /\ pc' = "while"
    /\ UNCHANGED <<op, input, ret>>

\* Line 187 left out: left stays behind when a 0 is moved to it.
sort_colors_While_left ==
    /\ op = "sort_colors" /\ pc = "while"
    /\ IF local.current <= local.right
       THEN /\ IF At(input.nums, local.current) = 0
               THEN /\ input' = [input EXCEPT !.nums = Swap(@, local.left, local.current)]
                    /\ local' = [local EXCEPT !.current = @ + 1]
               ELSE IF At(input.nums, local.current) = 2
               THEN /\ input' = [input EXCEPT !.nums = Swap(@, local.current, local.right)]
                    /\ local' = [local EXCEPT !.right = @ - 1]
               ELSE /\ local' = [local EXCEPT !.current = @ + 1]
                    /\ UNCHANGED input
            /\ UNCHANGED <<pc, ret>>
       ELSE /\ ret' = None /\ pc' = "done" /\ UNCHANGED <<input, local>>
    /\ UNCHANGED op

\* current += 1 added after line 191: the element swapped in is not examined.
sort_colors_While_advance ==
    /\ op = "sort_colors" /\ pc = "while"
    /\ IF local.current <= local.right
       THEN /\ IF At(input.nums, local.current) = 0
               THEN /\ input' = [input EXCEPT !.nums = Swap(@, local.left, local.current)]
                    /\ local' = [local EXCEPT !.left = @ + 1, !.current = @ + 1]
               ELSE IF At(input.nums, local.current) = 2
               THEN /\ input' = [input EXCEPT !.nums = Swap(@, local.current, local.right)]
                    /\ local' = [local EXCEPT !.right = @ - 1, !.current = @ + 1]
               ELSE /\ local' = [local EXCEPT !.current = @ + 1]
                    /\ UNCHANGED input
            /\ UNCHANGED <<pc, ret>>
       ELSE /\ ret' = None /\ pc' = "done" /\ UNCHANGED <<input, local>>
    /\ UNCHANGED op

\* Lines 184-194: one evaluation of `while current <= right` and, when it
\* holds, one pass of the body; the function returns None when it fails.
sort_colors_While ==
    /\ op = "sort_colors" /\ pc = "while"
    /\ IF local.current <= local.right
       THEN /\ IF At(input.nums, local.current) = 0
               THEN /\ input' = [input EXCEPT !.nums = Swap(@, local.left, local.current)]
                    /\ local' = [local EXCEPT !.left = @ + 1, !.current = @ + 1]
               ELSE IF At(input.nums, local.current) = 2
               THEN /\ input' = [input EXCEPT !.nums = Swap(@, local.current, local.right)]
                    /\ local' = [local EXCEPT !.right = @ - 1]
               ELSE /\ local' = [local EXCEPT !.current = @ + 1]
                    /\ UNCHANGED input
            /\ UNCHANGED <<pc, ret>>
       ELSE /\ ret' = None /\ pc' = "done" /\ UNCHANGED <<input, local>>
    /\ UNCHANGED op

\* A caller sorts the list a first call left once more.
sort_colors_Again ==
    /\ op = "sort_colors" /\ pc = "done" /\ input.first = <<>>
    /\ input' = [input EXCEPT !.first = <<input.nums>>]
    /\ local' = [left |-> 0, right |-> 0, current |-> 0]
    /\ pc' = "call"
    /\ ret' = NoRet
    /\ UNCHANGED op

NextSC ==
    \/ sort_colors_Call
    \/ sort_colors_While
    \/ sort_colors_Again

SpecSC == InitSC /\ [][NextSC]_vars

\* ---- the claim about sort_colors

\* C11: after sort_colors the list is non-decreasing and has the same
\* multiset of values as before the call, and sorting the result again
\* leaves it unchanged.
C11_SortColors ==
    Returned("sort_colors")
    => /\ IsSorted(input.nums)
       /\ \A v \in {0, 1, 2} :
             Cardinality({i \in Indices(input.nums) : At(input.nums, i) = v})
             = Cardinality({i \in Indices(input.given) : At(input.given, i) = v})
       /\ input.first # <<>> => input.nums = input.first[1]

\* The second call has returned on a list that was given unsorted with all
\* three colours.
C11_Witness ==
    /\ Returned("sort_colors") /\ input.first # <<>>
    /\ ~IsSorted(input.given)
    /\ \A v \in {0, 1, 2} : Occurs(input.given, v)
    /\ At(input.given, 0) = 2

(***************************************************************************)
(* fast_slow_pointers.py: is_palindrome_linked_list                        *)
(***************************************************************************)

\* An acyclic chain of 0..MaxList ListNode objects 1..n: node k links to node
\* k + 1 and the last node to NullNode; input.val holds the val fields and
\* input.next the next fields, which the function writes.  input.given is
\* the value of the next fields when the caller built the chain.
MaxList == 4
ListValues == {1, 2}

InitPL ==
    /\ op = "is_palindrome_linked_list"
    /\ \E n \in 0..MaxList :
          LET chain == [k \in 1..n |-> IF k = n THEN NullNode ELSE k + 1] IN
          input \in [head : {IF n = 0 THEN NullNode ELSE 1},
                     val : [1..n -> ListValues],
                     next : {chain},
                     given : {chain}]
    /\ local = [slow |-> NullNode, fast |-> NullNode, prev |-> NullNode,
                node |-> NullNode, first_half |-> NullNode, second_half |-> NullNode]
    /\ pc = "call"
    /\ ret = NoRet

\* Lines 120-124.
is_palindrome_linked_list_Call ==
    /\ op = "is_palindrome_linked_list" /\ pc = "call"
    /\ IF input.head = NullNode \/ input.next[input.head] = NullNode
       THEN /\ ret' = TRUE /\ pc' = "done" /\ UNCHANGED local
       ELSE /\ local' = [local EXCEPT !.slow = input.head, !.fast = input.head]
            /\ pc' = "while"
            /\ UNCHANGED ret
    /\ UNCHANGED <<op, input>>

\* Lines 125-127 and 139: one evaluation of `while fast and fast.next`; when
\* it fails reverse_list(slow) is entered with prev = None.
is_palindrome_linked_list_While ==
    /\ op = "is_palindrome_linked_list" /\ pc = "while"
    /\ IF local.fast # NullNode /\ input.next[local.fast] # NullNode
       THEN /\ local' = [local EXCEPT !.slow = input.next[local.slow],
                                      !.fast = input.next[input.next[local.fast]]]
            /\ UNCHANGED pc
       ELSE /\ local' = [local EXCEPT !.node = local.slow, !.prev = NullNode]
            /\ pc' = "reverse"
    /\ UNCHANGED <<op, input, ret>>

\* Lines 132-137 and 139-142: one evaluation of `while node` in reverse_list,
\* whose body writes node.next; when it fails reverse_list returns prev,
\* which becomes second_half, and first_half = head.
is_palindrome_linked_list_Reverse ==
    /\ op = "is_palindrome_linked_list" /\ pc = "reverse"
    /\ IF local.node # NullNode
       THEN LET next_node == input.next[local.node] IN
            /\ input' = [input EXCEPT !.next[local.node] = local.prev]
            /\ local' = [local EXCEPT !.prev = local.node, !.node = next_node]
            /\ UNCHANGED pc
       ELSE /\ local' = [local EXCEPT !.second_half = local.prev,
                                      !.first_half = input.head]
            /\ pc' = "compare"
            /\ UNCHANGED input
    /\ UNCHANGED <<op, ret>>

\* Lines 143-149.
is_palindrome_linked_list_Compare ==
    /\ op = "is_palindrome_linked_list" /\ pc = "compare"
    /\ IF local.second_half # NullNode
       THEN IF input.val[local.first_half] # input.val[local.second_half]
            THEN /\ ret' = FALSE /\ pc' = "done" /\ UNCHANGED local
            ELSE /\ local' = [local EXCEPT
                       !.first_half = input.next[local.first_half],
                       !.second_half = input.next[local.second_half]]
                 /\ UNCHANGED <<pc, ret>>
       ELSE /\ ret' = TRUE /\ pc' = "done" /\ UNCHANGED local
    /\ UNCHANGED <<op, input>>

NextPL ==
    \/ is_palindrome_linked_list_Call
    \/ is_palindrome_linked_list_While
    \/ is_palindrome_linked_list_Reverse
    \/ is_palindrome_linked_list_Compare

SpecPL == InitPL /\ [][NextPL]_vars

\* ---- the claim about is_palindrome_linked_list

\* The nodes met from node x along the next fields nxt, at most fuel of them.
RECURSIVE NodesFrom(_, _, _)
NodesFrom(nxt, x, fuel) ==
    IF x = NullNode \/ fuel = 0 THEN <<>>
    ELSE <<x>> \o NodesFrom(nxt, nxt[x], fuel - 1)

\* How many nodes reachable from head along nxt hold the value v.
ReachableCount(nxt, v) ==
    LET nodes == NodesFrom(nxt, input.head, Cardinality(DOMAIN nxt)) IN
    Cardinality({i \in 1..Len(nodes) : input.val[nodes[i]] = v})

\* C12: is_palindrome_linked_list leaves the multiset of the values
\* reachable from head as it was before the call.
C12_PalindromeKeepsElements ==
    Returned("is_palindrome_linked_list")
    => \A v \in ListValues :
          ReachableCount(input.next, v) = ReachableCount(input.given, v)

(***************************************************************************)
(* dynamic_programming.py: coin_change, knapsack_01                        *)
(***************************************************************************)

\* coin_change: coins is a list of 0..MaxCoins denominations in 1..MaxCoin
\* and amount is 0..MaxAmount.
\* knapsack_01: weights and values are lists of the same length 0..MaxItems,
\* weights in 0..MaxWeight, values in 0..MaxValue, capacity in 0..MaxCapacity.
MaxCoins == 2
MaxCoin == 3
MaxAmount == 5
MaxItems == 2
MaxWeight == 2
MaxValue == 2
MaxCapacity == 3

DPOps == {"coin_change", "knapsack_01"}

InitDP ==
    /\ op \in DPOps
    /\ \/ /\ op = "coin_change"
          /\ input \in [coins : SeqsUpTo(1..MaxCoin, MaxCoins), amount : 0..MaxAmount]
       \/ /\ op = "knapsack_01"
          /\ \E n \in 0..MaxItems :
                input \in [weights : [1..n -> 0..MaxWeight],
                           values : [1..n -> 0..MaxValue],
                           capacity : 0..MaxCapacity]
    /\ local = [dp |-> <<>>, i |-> 0]
    /\ pc = "call"
    /\ ret = NoRet

\* ---- coin_change
\* An entry of dp is float('inf'), written Inf, or a number n, written <<n>>.
Inf == <<>>

\* min(a, b + 1) over these entries: inf + 1 is inf, and inf is above every
\* number.
MinPlusOne(a, b) ==
    IF b = Inf THEN a
    ELSE IF a = Inf THEN <<b[1] + 1>>
    ELSE IF a[1] <= b[1] + 1 THEN a ELSE <<b[1] + 1>>

\* Lines 107-108: dp = [inf] * (amount + 1), dp[0] = 0.  local.i is the i of
\* the outer loop and local.j the position of coin in coins.
coin_change_Call ==
    /\ op = "coin_change" /\ pc = "call"
    /\ local' = [dp |-> [k \in 1..(input.amount + 1) |-> IF k = 1 THEN <<0>> ELSE Inf],
                 i |-> 1, j |-> 0]
    /\ pc' = "for"
    /\ UNCHANGED <<op, input, ret>>

\* Line 112 as `coin < i`.
coin_change_For_strict ==
    /\ op = "coin_change" /\ pc = "for"
    /\ IF local.i <= input.amount
       THEN /\ IF local.j < Len(input.coins)
               THEN LET coin == At(input.coins, local.j) IN
                    local' = [local EXCEPT
                       !.dp = IF coin < local.i
                              THEN [@ EXCEPT ![local.i + 1] =
                                      MinPlusOne(@, At(local.dp, local.i - coin))]
                              ELSE @,
                       !.j = @ + 1]
               ELSE local' = [local EXCEPT !.i = @ + 1, !.j = 0]
            /\ UNCHANGED <<pc, ret>>
       ELSE /\ ret' = IF At(local.dp, input.amount) # Inf
                      THEN At(local.dp, input.amount)[1] ELSE -1
            /\ pc' = "done"
            /\ UNCHANGED local
    /\ UNCHANGED <<op, input>>

\* Lines 110-115: one step of the two loops (the next coin for the current
\* i, or the next i once the coins are used up), or the return once
\* range(1, amount + 1) is used up.
coin_change_For ==
    /\ op = "coin_change" /\ pc = "for"
    /\ IF local.i <= input.amount
       THEN /\ IF local.j < Len(input.coins)
               THEN LET coin == At(input.coins, local.j) IN
                    local' = [local EXCEPT
                       !.dp = IF coin <= local.i
                              THEN [@ EXCEPT ![local.i + 1] =
                                      MinPlusOne(@, At(local.dp, local.i - coin))]
                              ELSE @,
                       !.j = @ + 1]
               ELSE local' = [local EXCEPT !.i = @ + 1, !.j = 0]
            /\ UNCHANGED <<pc, ret>>
       ELSE /\ ret' = IF At(local.dp, input.amount) # Inf
                      THEN At(local.dp, input.amount)[1] ELSE -1
            /\ pc' = "done"
            /\ UNCHANGED local
    /\ UNCHANGED <<op, input>>

\* ---- knapsack_01

\* range(capacity, weight - 1, -1) of line 163, as the list of its values.
\* The same values in increasing order:
knapsack_01_range_up(capacity, weight) ==
    [k \in 1..(IF capacity >= weight THEN capacity - weight + 1 ELSE 0) |->
        weight + k - 1]

knapsack_01_range(capacity, weight) ==
    [k \in 1..(IF capacity >= weight THEN capacity - weight + 1 ELSE 0) |->
        capacity - k + 1]

\* Lines 158-159.  local.i is the i of the outer loop and local.k the
\* position of w in the range of the inner loop.
knapsack_01_Call ==
    /\ op = "knapsack_01" /\ pc = "call"
    /\ local' = [dp |-> [k \in 1..(input.capacity + 1) |-> 0], i |-> 0, k |-> 0]
    /\ pc' = "for"
    /\ UNCHANGED <<op, input, ret>>

\* Lines 161-166: one step of the two loops (the next w for item i, or the
\* next item once the range is used up), or the return once range(n) is
\* used up.
knapsack_01_For ==
    /\ op = "knapsack_01" /\ pc = "for"
    /\ IF local.i < Len(input.weights)
       THEN LET weight == At(input.weights, local.i)
                range == knapsack_01_range(input.capacity, weight) IN
            /\ IF local.k < Len(range)
               THEN LET w == At(range, local.k) IN
                    local' = [local EXCEPT
                       !.dp[w + 1] = Max(@, At(local.dp, w - weight)
                                            + At(input.values, local.i)),
                       !.k = @ + 1]
               ELSE local' = [local EXCEPT !.i = @ + 1, !.k = 0]
            /\ UNCHANGED <<pc, ret>>
       ELSE /\ ret' = At(local.dp, input.capacity)
            /\ pc' = "done"
            /\ UNCHANGED local
    /\ UNCHANGED <<op, input>>

NextDP ==
    \/ coin_change_Call
    \/ coin_change_For
    \/ knapsack_01_Call
    \/ knapsack_01_For

SpecDP == InitDP /\ [][NextDP]_vars

\* ---- the claims about dynamic programming

\* The sum of f[x] over the finite set S.
RECURSIVE SumOver(_, _)
SumOver(f, S) ==
    IF S = {} THEN 0
    ELSE LET x == CHOOSE y \in S : TRUE IN f[x] + SumOver(f, S \ {x})

\* The numbers of coins of the multisets of coins that sum to amount: a
\* multiset takes c[k] coins of the k-th denomination.
CoinCounts(coins, amount) ==
    {SumOver(c, DOMAIN c) :
        c \in {c \in [1..Len(coins) -> 0..amount] :
                  SumOver([k \in 1..Len(coins) |-> c[k] * coins[k]],
                          1..Len(coins)) = amount}}

\* C13: for positive denominations and amount >= 0, coin_change returns the
\* minimum number of coins summing to amount, and -1 exactly when no
\* multiset of coins sums to amount; amount 0 yields 0.
C13_CoinChange ==
    Returned("coin_change")
    => LET counts == CoinCounts(input.coins, input.amount) IN
       /\ IF counts = {} THEN ret = -1
          ELSE ret \in counts /\ \A n \in counts : ret <= n
       /\ input.amount = 0 => ret = 0

\* Two different coins give the minimum, and the larger denomination alone
\* does not divide the amount.
C13_Witness ==
    /\ Returned("coin_change")
    /\ input.coins = <<2, 3>> /\ input.amount = 5
    /\ ret = 2

\* The best value of a subset of the first k items (each used at most once)
\* whose total weight is at most c.
Best(k, c) ==
    LET fits == {S \in SUBSET (1..k) : SumOver(input.weights, S) <= c}
        vals == {SumOver(input.values, S) : S \in fits}
    IN  CHOOSE v \in vals : \A u \in vals : u <= v

\* C14: knapsack_01 returns the maximum total value of a subset of the items
\* of total weight <= capacity; and while item i is processed every dp[w]
\* the decreasing traversal has passed is the best of items 0..i with item i
\* used at most once, the others still the best of items 0..i-1.
C14_Knapsack ==
    /\ Returned("knapsack_01") => ret = Best(Len(input.weights), input.capacity)
    /\ (op = "knapsack_01" /\ pc = "for" /\ local.i < Len(input.weights))
       => LET range == knapsack_01_range(input.capacity, At(input.weights, local.i))
              passed == {At(range, k) : k \in 0..(local.k - 1)} IN
          \A w \in 0..input.capacity :
             At(local.dp, w) = IF w \in passed THEN Best(local.i + 1, w)
                               ELSE Best(local.i, w)

\* An item light enough to fit twice, with something left to gain from the
\* second item.
C14_Witness ==
    /\ Returned("knapsack_01")
    /\ Len(input.weights) = 2 /\ input.capacity = 3
    /\ input.weights = <<1, 2>> /\ input.values = <<2, 1>>
    /\ ret = 3

(***************************************************************************)
(* binary_search.py: find_minimum_rotated, search_2d_matrix,               *)
(* OptimizationProblems, PeakFinding.find_peak_2d                          *)
(***************************************************************************)

\* A matrix is a list of 0..MaxRows rows, each a list of the same length
\* 0..MaxCols over 1..MaxCell; search_2d_matrix is called on the matrices
\* whose rows and columns are sorted ascending, find_peak_2d on all of them.
\* The lists nums and weights have length 0..MaxLen over 1..MaxVal; D, m and
\* threshold are 1..MaxDays.
\* A call that raises ends at pc = "raised" with the exception's name in ret.
MaxRows == 2
MaxCols == 2
MaxCell == 3
MaxDays == 2

B2Ops == {"find_minimum_rotated", "search_2d_matrix", "capacity_to_ship_packages",
          "split_array_largest_sum", "smallest_divisor", "find_peak_2d"}

Matrices ==
    UNION {[1..r -> [1..c -> 1..MaxCell]] : r \in 0..MaxRows, c \in 0..MaxCols}

\* Every row and every column of the matrix m is sorted ascending.
RowColSorted(m) ==
    /\ \A r \in 1..Len(m) : IsSorted(m[r])
    /\ \A r \in 1..(Len(m) - 1) : \A c \in 1..Len(m[r]) : m[r][c] <= m[r + 1][c]

InitB2 ==
    /\ op \in B2Ops
    /\ \/ /\ op = "find_minimum_rotated"
          /\ input \in [nums : SeqsUpTo(1..MaxVal, MaxLen)]
       \/ /\ op = "search_2d_matrix"
          /\ input \in [matrix : {m \in Matrices : RowColSorted(m)},
                        target : 0..(MaxCell + 1)]
       \/ /\ op \in {"capacity_to_ship_packages", "split_array_largest_sum",
                     "smallest_divisor"}
          /\ input \in [nums : SeqsUpTo(1..MaxVal, MaxLen), D : 1..MaxDays]
       \/ /\ op = "find_peak_2d"
          /\ input \in [matrix : Matrices]
    /\ local = [left |-> 0, right |-> 0]
    /\ pc = "call"
    /\ ret = NoRet

\* a[i] is defined for -len(a) <= i < len(a) and raises IndexError otherwise.
InRange(a, i) == -Len(a) <= i /\ i < Len(a)

\* max(a) and sum(a) of a list of numbers; max of the empty list raises
\* ValueError, which the callers below test before they use MaxOf.
MaxOf(a) == CHOOSE v \in {a[i] : i \in 1..Len(a)} : \A i \in 1..Len(a) : a[i] <= v

RECURSIVE SumOf(_)
SumOf(a) == IF a = <<>> THEN 0 ELSE a[1] + SumOf(Tail(a))

\* ---- BinarySearchVariations.find_minimum_rotated

find_minimum_rotated_Call ==
    /\ op = "find_minimum_rotated" /\ pc = "call"
    /\ local' = [left |-> 0, right |-> Len(input.nums) - 1]
    /\ pc' = "while"
    /\ UNCHANGED <<op, input, ret>>

\* Lines 138-146: one evaluation of `while left < right`; when it fails,
\* `return nums[left]`.
find_minimum_rotated_While ==
    /\ op = "find_minimum_rotated" /\ pc = "while"
    /\ IF local.left < local.right
       THEN LET mid == Mid(local.left, local.right) IN
            /\ local' = IF At(input.nums, mid) > At(input.nums, local.right)
                        THEN [local EXCEPT !.left = mid + 1]
                        ELSE [local EXCEPT !.right = mid]
            /\ UNCHANGED <<pc, ret>>
       ELSE /\ IF InRange(input.nums, local.left)
               THEN ret' = At(input.nums, local.left) /\ pc' = "done"
               ELSE ret' = "IndexError" /\ pc' = "raised"
            /\ UNCHANGED local
    /\ UNCHANGED <<op, input>>

\* ---- BinarySearchVariations.search_2d_matrix

\* Lines 151-155.
search_2d_matrix_Call ==
    /\ op = "search_2d_matrix" /\ pc = "call"
    /\ IF input.matrix = <<>> \/ input.matrix[1] = <<>>
       THEN /\ ret' = FALSE /\ pc' = "done" /\ UNCHANGED local
       ELSE /\ local' = [rows |-> Len(input.matrix), cols |-> Len(input.matrix[1]),
                         left |-> 0,
                         right |-> Len(input.matrix) * Len(input.matrix[1]) - 1]
            /\ pc' = "while"
            /\ UNCHANGED ret
    /\ UNCHANGED <<op, input>>

\* Lines 157-168: the matrix is read as one list, row after row.
search_2d_matrix_While ==
    /\ op = "search_2d_matrix" /\ pc = "while"
    /\ IF local.left <= local.right
       THEN LET mid == Mid(local.left, local.right)
                mid_value == At(At(input.matrix, mid \div local.cols), mid % local.cols)
            IN
            IF mid_value = input.target
            THEN /\ ret' = TRUE /\ pc' = "done" /\ UNCHANGED local
            ELSE IF mid_value < input.target
            THEN /\ local' = [local EXCEPT !.left = mid + 1]
                 /\ UNCHANGED <<pc, ret>>
            ELSE /\ local' = [local EXCEPT !.right = mid - 1]
                 /\ UNCHANGED <<pc, ret>>
       ELSE /\ ret' = FALSE /\ pc' = "done" /\ UNCHANGED local
    /\ UNCHANGED <<op, input>>

\* ---- OptimizationProblems
\* capacity_to_ship_packages(weights, D), split_array_largest_sum(nums, m)
\* and smallest_divisor(nums, threshold): the list is input.nums and the
\* second argument input.D.

\* can_ship(capacity), lines 177-187, and can_split(max_sum), lines 204-214,
\* which is the same function: the days (splits) the loop counts from the
\* k-th element on, having counted days with current_load in the last one.
RECURSIVE DaysFrom(_, _, _, _, _)
DaysFrom(a, k, days, current_load, capacity) ==
    IF k > Len(a) THEN days
    ELSE IF current_load + a[k] > capacity
         THEN DaysFrom(a, k + 1, days + 1, a[k], capacity)
         ELSE DaysFrom(a, k + 1, days, current_load + a[k], capacity)

can_ship(capacity) == DaysFrom(input.nums, 1, 1, 0, capacity) <= input.D

\* get_sum(divisor), line 234: math.ceil(num / divisor) for positive
\* integers is (num + divisor - 1) // divisor.
get_sum(divisor) ==
    SumOf([i \in 1..Len(input.nums) |-> (input.nums[i] + divisor - 1) \div divisor])

\* Lines 189, 216 and 236: max(...) of the empty list raises ValueError.
Optimization_Call ==
    /\ op \in {"capacity_to_ship_packages", "split_array_largest_sum", "smallest_divisor"}
    /\ pc = "call"
    /\ IF input.nums = <<>>
       THEN /\ ret' = "ValueError" /\ pc' = "raised" /\ UNCHANGED local
       ELSE /\ local' = IF op = "smallest_divisor"
                        THEN [left |-> 1, right |-> MaxOf(input.nums)]
                        ELSE [left |-> MaxOf(input.nums), right |-> SumOf(input.nums)]
            /\ pc' = "while"
            /\ UNCHANGED ret
    /\ UNCHANGED <<op, input>>

\* Lines 191-199, 218-226 and 238-246.
Optimization_While ==
    /\ op \in {"capacity_to_ship_packages", "split_array_largest_sum", "smallest_divisor"}
    /\ pc = "while"
    /\ IF local.left < local.right
       THEN LET mid == Mid(local.left, local.right)
                feasible == IF op = "smallest_divisor"
                            THEN get_sum(mid) <= input.D
                            ELSE can_ship(mid) IN
            /\ local' = IF feasible THEN [local EXCEPT !.right = mid]
                        ELSE [local EXCEPT !.left = mid + 1]
            /\ UNCHANGED <<pc, ret>>
       ELSE /\ ret' = local.left /\ pc' = "done" /\ UNCHANGED local
    /\ UNCHANGED <<op, input>>

\* ---- PeakFinding.find_peak_2d

\* Lines 308-309: matrix[0] of the empty matrix raises IndexError.
find_peak_2d_Call ==
    /\ op = "find_peak_2d" /\ pc = "call"
    /\ IF ~InRange(input.matrix, 0)
       THEN /\ ret' = "IndexError" /\ pc' = "raised" /\ UNCHANGED local
       ELSE /\ local' = [rows |-> Len(input.matrix), cols |-> Len(input.matrix[1]),
                         left |-> 0, right |-> Len(input.matrix[1]) - 1]
            /\ pc' = "while"
            /\ UNCHANGED ret
    /\ UNCHANGED <<op, input>>

\* Lines 313-318: the first row that holds the maximum of column mid_col.
RECURSIVE MaxRowFrom(_, _, _)
MaxRowFrom(i, max_row, mid_col) ==
    IF i >= Len(input.matrix) THEN max_row
    ELSE IF Cell(input.matrix, i, mid_col) > Cell(input.matrix, max_row, mid_col)
         THEN MaxRowFrom(i + 1, i, mid_col)
         ELSE MaxRowFrom(i + 1, max_row, mid_col)

\* Lines 311-331.
find_peak_2d_While ==
    /\ op = "find_peak_2d" /\ pc = "while"
    /\ IF local.left <= local.right
       THEN LET mid_col == Mid(local.left, local.right)
                max_row == MaxRowFrom(0, 0, mid_col)
                here == Cell(input.matrix, max_row, mid_col)
                left_val == IF mid_col > 0
                            THEN Cell(input.matrix, max_row, mid_col - 1) ELSE -1
                right_val == IF mid_col < local.cols - 1
                             THEN Cell(input.matrix, max_row, mid_col + 1) ELSE -1
            IN
            IF here >= left_val /\ here >= right_val
            THEN /\ ret' = <<max_row, mid_col>> /\ pc' = "done" /\ UNCHANGED local
            ELSE IF left_val > here
            THEN /\ local' = [local EXCEPT !.right = mid_col - 1]
                 /\ UNCHANGED <<pc, ret>>
            ELSE /\ local' = [local EXCEPT !.left = mid_col + 1]
                 /\ UNCHANGED <<pc, ret>>
       ELSE /\ ret' = <<-1, -1>> /\ pc' = "done" /\ UNCHANGED local
    /\ UNCHANGED <<op, input>>

NextB2 ==
    \/ find_minimum_rotated_Call
    \/ find_minimum_rotated_While
    \/ search_2d_matrix_Call
    \/ search_2d_matrix_While
    \/ Optimization_Call
    \/ Optimization_While
    \/ find_peak_2d_Call
    \/ find_peak_2d_While

SpecB2 == InitB2 /\ [][NextB2]_vars

\* ---- the claims about these functions

\* C15: on a non-empty matrix whose rows and columns are sorted ascending,
\* search_2d_matrix returns True if and only if the target occurs in it.
C15_Search2D ==
    (Returned("search_2d_matrix") /\ input.matrix # <<>> /\ input.matrix[1] # <<>>
        /\ RowColSorted(input.matrix))
    => (ret = \E r \in 1..Len(input.matrix) : Occurs(input.matrix[r], input.target))

\* The call was made on an empty sequence or an empty matrix.
EmptyInput ==
    IF op \in {"search_2d_matrix", "find_peak_2d"}
    THEN input.matrix = <<>> \/ input.matrix[1] = <<>>
    ELSE input.nums = <<>>

\* C16: no operation of the family raises when it is called on an empty
\* sequence or an empty matrix.
C16_EmptyNeverRaises == EmptyInput => pc # "raised"

(***************************************************************************)
(* graph_traversal.py: GraphTraversal.bfs, dfs_recursive, dfs_iterative    *)
(***************************************************************************)

\* A graph is a dict with the keys 0..NumVertices-1, each with a list of
\* neighbours; a neighbour may be repeated and a vertex may be its own
\* neighbour.  The lists of a graph hold at most MaxEdges entries together.
NumVertices == 3
MaxEdges == 3

Vertices == 0..(NumVertices - 1)

\* The adjacency lists after the edges <<u, v>> of the list es were appended
\* in order to empty lists.
RECURSIVE GraphOf(_)
GraphOf(es) ==
    IF es = <<>> THEN [v \in Vertices |-> <<>>]
    ELSE LET g == GraphOf(SubSeq(es, 1, Len(es) - 1))
             e == es[Len(es)]
         IN [g EXCEPT ![e[1]] = Append(@, e[2])]

Graphs == {GraphOf(es) : es \in SeqsUpTo(Vertices \X Vertices, MaxEdges)}

InitGT ==
    /\ op \in {"bfs", "dfs_iterative"}
    /\ input \in [graph : Graphs, start : Vertices]
    /\ local = [visited |-> {}]
    /\ pc = "call"
    /\ ret = NoRet

\* Lines 18-20.  enqueued lists, in order, every vertex that was put in the
\* queue: the start vertex on line 19 and every queue.append of line 30.
bfs_Call ==
    /\ op = "bfs" /\ pc = "call"
    /\ local' = [visited |-> {}, queue |-> <<input.start>>, result |-> <<>>,
                 enqueued |-> <<input.start>>]
    /\ pc' = "while"
    /\ UNCHANGED <<op, input, ret>>

\* Lines 28-30: the neighbours of the list nbrs that are not in visited, in
\* the order of the list, each as often as it is listed.
Unvisited(nbrs, visited) == SelectSeq(nbrs, LAMBDA n : n \notin visited)

\* Lines 22-32: one evaluation of `while queue` with the body it guards.
bfs_While ==
    /\ op = "bfs" /\ pc = "while"
    /\ IF local.queue # <<>>
       THEN LET vertex == Head(local.queue)
                rest == Tail(local.queue)
            IN
            /\ IF vertex \notin local.visited
               THEN LET visited == local.visited \cup {vertex}
                        new == Unvisited(input.graph[vertex], visited)
                    IN local' = [visited |-> visited,
                                 queue |-> rest \o new,
                                 result |-> Append(local.result, vertex),
                                 enqueued |-> local.enqueued \o new]
               ELSE local' = [local EXCEPT !.queue = rest]
            /\ UNCHANGED <<pc, ret>>
       ELSE /\ ret' = local.result /\ pc' = "done" /\ UNCHANGED local
    /\ UNCHANGED <<op, input>>

\* Lines 35-47.  dfs_recursive(graph, start, visited) as the pair of the list
\* it returns and the set visited as the call leaves it; dfs_recursive_For is
\* the loop of lines 43-45 from the k-th neighbour on.
RECURSIVE dfs_recursive(_, _, _)
RECURSIVE dfs_recursive_For(_, _, _, _, _)
dfs_recursive(graph, start, visited) ==
    dfs_recursive_For(graph, start, 1, <<start>>, visited \cup {start})

dfs_recursive_For(graph, start, k, result, visited) ==
    IF k > Len(graph[start]) THEN [result |-> result, visited |-> visited]
    ELSE LET neighbor == graph[start][k] IN
         IF neighbor \notin visited
         THEN LET r == dfs_recursive(graph, neighbor, visited)
              IN dfs_recursive_For(graph, start, k + 1, result \o r.result, r.visited)
         ELSE dfs_recursive_For(graph, start, k + 1, result, visited)

\* reversed(a), line 62.
Reversed(a) == [i \in 1..Len(a) |-> a[Len(a) + 1 - i]]

\* The order in which dfs_iterative goes through the neighbours, line 62;
\* dfs_iterative_neighbors_forward leaves out the reversal.
dfs_iterative_neighbors_forward(nbrs) == nbrs

dfs_iterative_neighbors(nbrs) == Reversed(nbrs)

\* Lines 52-54.
dfs_iterative_Call ==
    /\ op = "dfs_iterative" /\ pc = "call"
    /\ local' = [visited |-> {}, stack |-> <<input.start>>, result |-> <<>>]
    /\ pc' = "while"
    /\ UNCHANGED <<op, input, ret>>

\* Lines 56-66: one evaluation of `while stack` with the body it guards; the
\* top of the stack is the end of the list.
dfs_iterative_While ==
    /\ op = "dfs_iterative" /\ pc = "while"
    /\ IF local.stack # <<>>
       THEN LET vertex == local.stack[Len(local.stack)]
                rest == SubSeq(local.stack, 1, Len(local.stack) - 1)
            IN
            /\ IF vertex \notin local.visited
               THEN LET visited == local.visited \cup {vertex}
                        new == Unvisited(dfs_iterative_neighbors(input.graph[vertex]),
                                         visited)
                    IN local' = [visited |-> visited,
                                 stack |-> rest \o new,
                                 result |-> Append(local.result, vertex)]
               ELSE local' = [local EXCEPT !.stack = rest]
            /\ UNCHANGED <<pc, ret>>
       ELSE /\ ret' = local.result /\ pc' = "done" /\ UNCHANGED local
    /\ UNCHANGED <<op, input>>

NextGT ==
    \/ bfs_Call
    \/ bfs_While
    \/ dfs_iterative_Call
    \/ dfs_iterative_While

SpecGT == InitGT /\ [][NextGT]_vars

\* ---- the claims about the traversals

\* No adjacency list of graph names a vertex twice.
NoRepeatedNeighbours(graph) ==
    \A v \in DOMAIN graph : \A i, j \in 1..Len(graph[v]) :
        graph[v][i] = graph[v][j] => i = j

\* C17: at every point of a run of bfs, no vertex has been put in the queue
\* more than once.  The statement is made for the graphs without repeated
\* neighbours only, where a second append is not owed to the input.
C17_EnqueuedOnce ==
    (op = "bfs" /\ pc # "call" /\ NoRepeatedNeighbours(input.graph))
    => \A i, j \in 1..Len(local.enqueued) :
           local.enqueued[i] = local.enqueued[j] => i = j

\* The vertices that a path of zero or more edges of graph leads to from s.
RECURSIVE ReachFrom(_, _)
ReachFrom(graph, seen) ==
    LET more == seen \cup UNION {{graph[v][k] : k \in 1..Len(graph[v])} : v \in seen}
    IN IF more = seen THEN seen ELSE ReachFrom(graph, more)

Reachable(graph, s) == ReachFrom(graph, {s})

\* C18: dfs_iterative returns the list dfs_recursive returns for the same
\* graph and start vertex, and every vertex reachable from start is in that
\* list exactly once and no other vertex is in it.
C18_DfsSameOrder ==
    Returned("dfs_iterative")
    => /\ ret = dfs_recursive(input.graph, input.start, {}).result
       /\ \A v \in Vertices :
              Cardinality({i \in 1..Len(ret) : ret[i] = v})
                  = IF v \in Reachable(input.graph, input.start) THEN 1 ELSE 0

\* dfs_iterative has returned for the graph 0: [1, 2], 1: [2], 2: [], where
\* vertex 2 was pushed on the stack twice, the second time above the first.
C18_Witness ==
    /\ Returned("dfs_iterative")
    /\ input.start = 0
    /\ input.graph[0] = <<1, 2>> /\ input.graph[1] = <<2>> /\ input.graph[2] = <<>>
    /\ ret = <<0, 1, 2>>

(***************************************************************************)
(* graph_traversal.py: CycleDetection.can_finish_courses                   *)
(***************************************************************************)

\* num_courses is 0..NumVertices and prerequisites a list of at most MaxEdges
\* pairs <<course, prereq>> of courses 0..num_courses-1.
\* The calls of the nested has_cycle are the frames of local.stack, the
\* running call last; a frame holds its node and the position k (from 1) of
\* the neighbour its loop takes next.  local.result is the value the call
\* that ended last returned.
InitCF ==
    /\ op = "can_finish_courses"
    /\ \E n \in 0..NumVertices :
           input \in [num_courses : {n},
                      prerequisites : SeqsUpTo((0..(n - 1)) \X (0..(n - 1)), MaxEdges)]
    /\ local = [i |-> 0]
    /\ pc = "call"
    /\ ret = NoRet

\* Lines 216-219: graph[prereq].append(course) for the first k pairs; a key
\* the defaultdict does not hold stands for the empty list.
RECURSIVE PrereqGraph(_, _, _)
PrereqGraph(n, prerequisites, k) ==
    IF k = 0 THEN [v \in 0..(n - 1) |-> <<>>]
    ELSE [PrereqGraph(n, prerequisites, k - 1)
              EXCEPT ![prerequisites[k][2]] = Append(@, prerequisites[k][1])]

\* Lines 216-222.
can_finish_courses_Call ==
    /\ op = "can_finish_courses" /\ pc = "call"
    /\ local' = [graph |-> PrereqGraph(input.num_courses, input.prerequisites,
                                       Len(input.prerequisites)),
                 color |-> [v \in 0..(input.num_courses - 1) |-> 0],
                 i |-> 0, stack |-> <<>>, result |-> FALSE]
    /\ pc' = "for"
    /\ UNCHANGED <<op, input, ret>>

\* Lines 239-243: one step of `for i in range(num_courses)` up to the call
\* of has_cycle(i), which `color[i] == 0 and` guards.
can_finish_courses_For ==
    /\ op = "can_finish_courses" /\ pc = "for"
    /\ IF local.i < input.num_courses
       THEN /\ IF local.color[local.i] = 0
               THEN /\ local' = [local EXCEPT !.stack = <<[node |-> local.i, k |-> 1]>>]
                    /\ pc' = "enter"
               ELSE /\ local' = [local EXCEPT !.i = @ + 1]
                    /\ UNCHANGED pc
            /\ UNCHANGED ret
       ELSE /\ ret' = TRUE /\ pc' = "done" /\ UNCHANGED local
    /\ UNCHANGED <<op, input>>

\* Lines 225-230: the start of a call of has_cycle(node).
has_cycle_Enter ==
    /\ op = "can_finish_courses" /\ pc = "enter"
    /\ LET node == Top(local.stack).node IN
       IF local.color[node] = 1
       THEN /\ local' = [local EXCEPT !.stack = Pop(@), !.result = TRUE]
            /\ pc' = "return"
       ELSE IF local.color[node] = 2
       THEN /\ local' = [local EXCEPT !.stack = Pop(@), !.result = FALSE]
            /\ pc' = "return"
       ELSE /\ local' = [local EXCEPT !.color[node] = 1]
            /\ pc' = "loop"
    /\ UNCHANGED <<op, input, ret>>

\* Lines 232-237: one step of `for neighbor in graph[node]` up to the call of
\* has_cycle(neighbor), and lines 236-237 when the list is exhausted;
\* has_cycle_For_unmarked leaves out line 236.
has_cycle_For_unmarked ==
    /\ op = "can_finish_courses" /\ pc = "loop"
    /\ LET f == Top(local.stack) IN
       IF f.k <= Len(local.graph[f.node])
       THEN /\ local' = [local EXCEPT !.stack =
                             Append(SetTop(@, [f EXCEPT !.k = @ + 1]),
                                    [node |-> local.graph[f.node][f.k], k |-> 1])]
            /\ pc' = "enter"
       ELSE /\ local' = [local EXCEPT !.stack = Pop(@), !.result = FALSE]
            /\ pc' = "return"
    /\ UNCHANGED <<op, input, ret>>

has_cycle_For ==
    /\ op = "can_finish_courses" /\ pc = "loop"
    /\ LET f == Top(local.stack) IN
       IF f.k <= Len(local.graph[f.node])
       THEN /\ local' = [local EXCEPT !.stack =
                             Append(SetTop(@, [f EXCEPT !.k = @ + 1]),
                                    [node |-> local.graph[f.node][f.k], k |-> 1])]
            /\ pc' = "enter"
       ELSE /\ local' = [local EXCEPT !.color[f.node] = 2,
                                      !.stack = Pop(@), !.result = FALSE]
            /\ pc' = "return"
    /\ UNCHANGED <<op, input, ret>>

\* A call of has_cycle has returned local.result: to line 233-234 of the call
\* below it on the stack, or to line 240-241 when the stack is empty.
has_cycle_Return ==
    /\ op = "can_finish_courses" /\ pc = "return"
    /\ IF local.stack # <<>>
       THEN /\ IF local.result
               THEN local' = [local EXCEPT !.stack = Pop(@)] /\ UNCHANGED pc
               ELSE pc' = "loop" /\ UNCHANGED local
            /\ UNCHANGED ret
       ELSE IF local.result
            THEN /\ ret' = FALSE /\ pc' = "done" /\ UNCHANGED local
            ELSE /\ local' = [local EXCEPT !.i = @ + 1]
                 /\ pc' = "for"
                 /\ UNCHANGED ret
    /\ UNCHANGED <<op, input>>

NextCF ==
    \/ can_finish_courses_Call
    \/ can_finish_courses_For
    \/ has_cycle_Enter
    \/ has_cycle_For
    \/ has_cycle_Return

SpecCF == InitCF /\ [][NextCF]_vars

\* ---- the claim about can_finish_courses

\* The edges prereq -> course of the prerequisite list.
PrereqEdges == {<<input.prerequisites[k][2], input.prerequisites[k][1]>> :
                   k \in 1..Len(input.prerequisites)}

\* The vertices that one or more edges lead to from a vertex of the set from.
RECURSIVE After(_, _)
After(from, found) ==
    LET more == found \cup {e[2] : e \in {d \in PrereqEdges : d[1] \in from \cup found}}
    IN IF more = found THEN found ELSE After(from, more)

OnPrereqCycle(v) == v \in After({v}, {})

\* C19: can_finish_courses returns False exactly when some course lies on a
\* cycle of the prerequisite graph (a course that is its own prerequisite is
\* one), and has_cycle is entered on a course coloured 1 only if that course
\* lies on a cycle.
C19_CanFinish ==
    /\ Returned("can_finish_courses")
       => (ret = ~(\E v \in 0..(input.num_courses - 1) : OnPrereqCycle(v)))
    /\ (op = "can_finish_courses" /\ pc = "enter"
            /\ local.color[Top(local.stack).node] = 1)
       => OnPrereqCycle(Top(local.stack).node)

\* can_finish_courses has returned False for the cycle 0 -> 1 -> 2 -> 0.
C19_Witness ==
    /\ Returned("can_finish_courses")
    /\ input.prerequisites = <<<<1, 0>>, <<2, 1>>, <<0, 2>>>>
    /\ ret = FALSE

(***************************************************************************)
(* merge_intervals.py: min_meeting_rooms                                   *)
(***************************************************************************)

\* intervals is a list of at most MaxIntervals meetings [start, end] with
\* 0 <= start <= end <= MaxT.  The function only reads its argument.
InitMR ==
    /\ op = "min_meeting_rooms"
    /\ input \in [intervals : SeqsUpTo(Intervals, MaxIntervals)]
    /\ local = [start_ptr |-> 0, end_ptr |-> 0]
    /\ pc = "call"
    /\ ret = NoRet

\* sorted(a) for a list of integers, lines 159-160.
RECURSIVE sorted(_)
sorted(a) ==
    IF a = <<>> THEN <<>>
    ELSE LET s == sorted(SubSeq(a, 1, Len(a) - 1))
             x == a[Len(a)]
             k == Cardinality({i \in 1..Len(s) : s[i] <= x})
         IN SubSeq(s, 1, k) \o <<x>> \o SubSeq(s, k + 1, Len(s))

\* Lines 155-164.
min_meeting_rooms_Call ==
    /\ op = "min_meeting_rooms" /\ pc = "call"
    /\ IF input.intervals = <<>>
       THEN /\ ret' = 0 /\ pc' = "done" /\ UNCHANGED local
       ELSE /\ local' = [starts |-> sorted([i \in 1..Len(input.intervals)
                                               |-> At(input.intervals[i], 0)]),
                         ends |-> sorted([i \in 1..Len(input.intervals)
                                             |-> At(input.intervals[i], 1)]),
                         rooms_needed |-> 0, max_rooms |-> 0,
                         start_ptr |-> 0, end_ptr |-> 0]
            /\ pc' = "while"
            /\ UNCHANGED ret
    /\ UNCHANGED <<op, input>>

\* Lines 166-177: one evaluation of `while start_ptr < len(intervals)` with
\* its body; the read ends[end_ptr] of line 168 raises IndexError when end_ptr
\* is out of range.  min_meeting_rooms_While_le compares with <= on line 168.
min_meeting_rooms_While_le ==
    /\ op = "min_meeting_rooms" /\ pc = "while"
    /\ IF local.start_ptr < Len(input.intervals)
       THEN IF ~InRange(local.ends, local.end_ptr)
            THEN /\ ret' = "IndexError" /\ pc' = "raised" /\ UNCHANGED local
            ELSE /\ IF At(local.starts, local.start_ptr) <= At(local.ends, local.end_ptr)
                    THEN local' = [local EXCEPT
                                     !.rooms_needed = @ + 1,
                                     !.max_rooms = Max(@, local.rooms_needed + 1),
                                     !.start_ptr = @ + 1]
                    ELSE local' = [local EXCEPT !.rooms_needed = @ - 1,
                                                !.end_ptr = @ + 1]
                 /\ UNCHANGED <<pc, ret>>
       ELSE /\ ret' = local.max_rooms /\ pc' = "done" /\ UNCHANGED local
    /\ UNCHANGED <<op, input>>

min_meeting_rooms_While ==
    /\ op = "min_meeting_rooms" /\ pc = "while"
    /\ IF local.start_ptr < Len(input.intervals)
       THEN IF ~InRange(local.ends, local.end_ptr)
            THEN /\ ret' = "IndexError" /\ pc' = "raised" /\ UNCHANGED local
            ELSE /\ IF At(local.starts, local.start_ptr) < At(local.ends, local.end_ptr)
                    THEN local' = [local EXCEPT
                                     !.rooms_needed = @ + 1,
                                     !.max_rooms = Max(@, local.rooms_needed + 1),
                                     !.start_ptr = @ + 1]
                    ELSE local' = [local EXCEPT !.rooms_needed = @ - 1,
                                                !.end_ptr = @ + 1]
                 /\ UNCHANGED <<pc, ret>>
       ELSE /\ ret' = local.max_rooms /\ pc' = "done" /\ UNCHANGED local
    /\ UNCHANGED <<op, input>>

NextMR ==
    \/ min_meeting_rooms_Call
    \/ min_meeting_rooms_While

SpecMR == InitMR /\ [][NextMR]_vars

\* ---- the claims about min_meeting_rooms

\* The number of meetings of the list that are in progress at time t.
InProgress(intervals, t) ==
    Cardinality({i \in 1..Len(intervals) :
                    At(intervals[i], 0) <= t /\ t < At(intervals[i], 1)})

\* The greatest number of meetings in progress at one time, 0 for no meeting.
\* The number only grows at the start of a meeting, so the start times are
\* the times to look at.
MostAtOnce(intervals) ==
    LET counts == {InProgress(intervals, At(intervals[i], 0)) : i \in 1..Len(intervals)}
    IN IF counts = {} THEN 0 ELSE CHOOSE c \in counts : \A e \in counts : e <= c

\* C20: for a list of meetings that all have start < end, min_meeting_rooms
\* returns the greatest number of meetings in progress at one time, a meeting
\* being in progress from its start up to, not including, its end; and the
\* call does return.
C20_MeetingRooms ==
    (op = "min_meeting_rooms"
        /\ \A i \in 1..Len(input.intervals) :
               At(input.intervals[i], 0) < At(input.intervals[i], 1))
    => /\ pc # "raised"
       /\ pc = "done" => ret = MostAtOnce(input.intervals)

\* min_meeting_rooms has returned 2 for three meetings of which one starts
\* when another ends and the third overlaps both.
C20_Witness ==
    /\ Returned("min_meeting_rooms")
    /\ input.intervals = <<<<0, 1>>, <<1, 2>>, <<0, 2>>>>
    /\ ret = 2

\* C21: for every list of meetings with start <= end, meetings of length 0
\* among them, no read ends[end_ptr] is out of range: the call never raises.
C21_NeverOutOfRange == op = "min_meeting_rooms" => pc # "raised"

\* C22: when a first call of merge_intervals has returned, the caller's list
\* holds the intervals it held before the call, in the same order and with
\* the same endpoints.
C22_InputUnchanged ==
    (Returned("merge_intervals") /\ input.first = <<>>)
    => Deref(input.obj, input.intervals) = input.given

(***************************************************************************)
(* sliding_window.py: SlidingWindow.character_replacement, and the window  *)
(* invariant of min_window_substring                                       *)
(***************************************************************************)

\* s has length 0..MaxText over Alphabet and k is 0..MaxK.
MaxText == 6
MaxK == 2

InitCR ==
    /\ op = "character_replacement"
    /\ input \in [s : SeqsUpTo(Alphabet, MaxText), k : 0..MaxK]
    /\ local = [right |-> 0]
    /\ pc = "call"
    /\ ret = NoRet

\* Lines 317-320; the defaultdict char_frequency is a function on Alphabet.
character_replacement_Call ==
    /\ op = "character_replacement" /\ pc = "call"
    /\ local' = [char_frequency |-> [c \in Alphabet |-> 0],
                 left |-> 0, max_length |-> 0, max_count |-> 0, right |-> 0]
    /\ pc' = "for"
    /\ UNCHANGED <<op, input, ret>>

\* Line 327 as >= : a window that needs exactly k replacements is shrunk.
character_replacement_For_ge ==
    /\ op = "character_replacement" /\ pc = "for"
    /\ IF local.right < Len(input.s)
       THEN LET right == local.right
                freq == [local.char_frequency EXCEPT ![At(input.s, right)] = @ + 1]
                max_count == Max(local.max_count, freq[At(input.s, right)])
                shrink == (right - local.left + 1) - max_count >= input.k
                left == IF shrink THEN local.left + 1 ELSE local.left
            IN
            /\ local' = [char_frequency |->
                             IF shrink
                             THEN [freq EXCEPT ![At(input.s, local.left)] = @ - 1]
                             ELSE freq,
                         left |-> left,
                         max_length |-> Max(local.max_length, right - left + 1),
                         max_count |-> max_count,
                         right |-> right + 1]
            /\ UNCHANGED <<pc, ret>>
       ELSE /\ ret' = local.max_length /\ pc' = "done" /\ UNCHANGED local
    /\ UNCHANGED <<op, input>>

\* Lines 322-333: one step of `for right in range(len(s))`, or the return
\* when the range is used up.
character_replacement_For ==
    /\ op = "character_replacement" /\ pc = "for"
    /\ IF local.right < Len(input.s)
       THEN LET right == local.right
                freq == [local.char_frequency EXCEPT ![At(input.s, right)] = @ + 1]
                max_count == Max(local.max_count, freq[At(input.s, right)])
                shrink == (right - local.left + 1) - max_count > input.k
                left == IF shrink THEN local.left + 1 ELSE local.left
            IN
            /\ local' = [char_frequency |->
                             IF shrink
                             THEN [freq EXCEPT ![At(input.s, local.left)] = @ - 1]
                             ELSE freq,
                         left |-> left,
                         max_length |-> Max(local.max_length, right - left + 1),
                         max_count |-> max_count,
                         right |-> right + 1]
            /\ UNCHANGED <<pc, ret>>
       ELSE /\ ret' = local.max_length /\ pc' = "done" /\ UNCHANGED local
    /\ UNCHANGED <<op, input>>

NextCR ==
    \/ character_replacement_Call
    \/ character_replacement_For

SpecCR == InitCR /\ [][NextCR]_vars

\* ---- the claim about character_replacement

\* The count of the most frequent letter of the string w, 0 for the empty one.
MostFrequent(w) ==
    CHOOSE n \in 0..Len(w) :
        /\ \A c \in Alphabet : Count(w, c) <= n
        /\ (w # <<>> => \E c \in Alphabet : Count(w, c) = n)

\* The lengths of the substrings of s that at most k replacements turn into
\* one repeated letter; the empty substring is one of them.
ReplaceableLengths(s, k) ==
    {n \in 0..Len(s) :
        \E i \in 0..(Len(s) - n) : n - MostFrequent(Slice(s, i, i + n)) <= k}

\* C23: character_replacement(s, k) returns the greatest length of a
\* substring of s whose length less the count of its most frequent letter is
\* at most k.
C23_CharacterReplacement ==
    Returned("character_replacement")
    => /\ ret \in ReplaceableLengths(input.s, input.k)
       /\ \A n \in ReplaceableLengths(input.s, input.k) : n <= ret

\* The call has returned less than len(s) with max_count above the count of
\* the most frequent letter of the last window: max_count was not decreased
\* when the window lost an occurrence of that letter.
C23_Witness ==
    /\ Returned("character_replacement")
    /\ ret < Len(input.s)
    /\ local.max_count > MostFrequent(Slice(input.s, local.left, Len(input.s)))

\* ---- the window invariant of min_window_substring

\* C24: whenever the condition of the inner loop of min_window_substring is
\* evaluated, window_counts holds for every character its number of
\* occurrences in s[left..right], and formed is the number of distinct
\* characters of t that the window holds at least as often as t does.
C24_WindowCounts ==
    (op = "min_window_substring" /\ pc = "contract")
    => LET window == Slice(input.s, local.left, local.right + 1) IN
       /\ \A c \in Alphabet : local.window_counts[c] = Count(window, c)
       /\ local.formed = Cardinality({c \in Alphabet :
                             /\ Count(input.t, c) > 0
                             /\ local.window_counts[c] >= local.required[c]})

\* The condition is evaluated after the window was contracted, with every
\* character of t still covered and one of them more often than t needs it.
C24_Witness ==
    /\ op = "min_window_substring" /\ pc = "contract"
    /\ local.left > 0 /\ local.left <= local.right
    /\ local.formed = LenRequired(local.required)
    /\ \E c \in Alphabet : /\ local.required[c] > 0
                           /\ local.window_counts[c] > local.required[c]

(***************************************************************************)
(* subsets_backtracking.py: WordProblems.word_search, word_search_ii       *)
(***************************************************************************)

\* A board is a list of rows of equal length over BoardLetters with at most
\* MaxCells cells in all; the board without rows and the boards of empty
\* rows are among them.  word is a string of length 0..MaxWord over
\* BoardLetters.  The words of word_search_ii have length 0..MaxTrieWord and
\* there are at most MaxWords different ones; the list is given as the set
\* of its elements, which is all the trie built from it keeps of it.
\* input.board is the caller's list object, which the functions write, and
\* input.given its value before the call.
MaxCells == 4
MaxWord == 3
MaxTrieWord == 2
MaxWords == 2
BoardLetters == {"a", "b"}

Boards ==
    UNION {[1..sh[1] -> [1..sh[2] -> BoardLetters]] :
              sh \in {x \in (0..MaxCells) \X (0..MaxCells) : x[1] * x[2] <= MaxCells}}

WSOps == {"word_search", "word_search_ii"}

InitWS ==
    /\ op \in WSOps
    /\ \E b \in Boards :
        \/ /\ op = "word_search"
           /\ input \in [board : {b}, given : {b}, word : SeqsUpTo(BoardLetters, MaxWord)]
        \/ /\ op = "word_search_ii"
           /\ input \in [board : {b}, given : {b},
                         words : {W \in SUBSET SeqsUpTo(BoardLetters, MaxTrieWord) :
                                     Cardinality(W) <= MaxWords}]
    /\ local = [i |-> 0, j |-> 0]
    /\ pc = "call"
    /\ ret = NoRet

\* ---- WordProblems.word_search

\* Lines 312-316: the cell gets back the character it held; the call then
\* returns found.  word_search_restore_unless_found returns found at once
\* when it is True.
word_search_restore_unless_found(board, row, col, temp, found) ==
    IF found THEN board ELSE SetCell(board, row, col, temp)

word_search_restore(board, row, col, temp, found) == SetCell(board, row, col, temp)

\* Lines 306-309: the neighbours in the order of the `or` chain.
word_search_Neighbours == <<<<1, 0>>, <<-1, 0>>, <<0, 1>>, <<0, -1>>>>

\* Lines 293-316.  backtrack(row, col, index) on the board as it is at the
\* call, as the pair of the value returned and the board as the call leaves
\* it; word_search_Or is the `or` chain from its d-th operand on, which stops
\* at the first call that returns True.
RECURSIVE word_search_backtrack(_, _, _, _, _)
RECURSIVE word_search_Or(_, _, _, _, _, _)
word_search_backtrack(board, word, row, col, index) ==
    IF index = Len(word) THEN [found |-> TRUE, board |-> board]
    ELSE IF \/ row < 0 \/ row >= Len(board)
            \/ col < 0 \/ col >= Len(board[1])
            \/ Cell(board, row, col) # At(word, index)
    THEN [found |-> FALSE, board |-> board]
    ELSE LET temp == Cell(board, row, col)
             r == word_search_Or(SetCell(board, row, col, "#"), word, row, col, index, 1)
         IN [found |-> r.found,
             board |-> word_search_restore(r.board, row, col, temp, r.found)]

word_search_Or(board, word, row, col, index, d) ==
    IF d > Len(word_search_Neighbours) THEN [found |-> FALSE, board |-> board]
    ELSE LET r == word_search_backtrack(board, word,
                                        row + word_search_Neighbours[d][1],
                                        col + word_search_Neighbours[d][2], index + 1)
         IN IF r.found THEN r
            ELSE word_search_Or(r.board, word, row, col, index, d + 1)

\* Line 291: board[0] of the board without rows raises IndexError.
word_search_Call ==
    /\ op \in WSOps /\ pc = "call"
    /\ IF ~InRange(input.board, 0)
       THEN /\ ret' = "IndexError" /\ pc' = "raised" /\ UNCHANGED local
       ELSE /\ local' = [rows |-> Len(input.board), cols |-> Len(input.board[1]),
                         i |-> 0, j |-> 0, result |-> <<>>, taken |-> {}]
            /\ pc' = "for"
            /\ UNCHANGED ret
    /\ UNCHANGED <<op, input>>

\* The cell after (i, j) in the order of the loops `for i in range(rows):
\* for j in range(cols)`; the loops are over when i reaches rows.
NextCell(l) ==
    IF l.j + 1 < l.cols THEN [l EXCEPT !.j = @ + 1]
    ELSE [l EXCEPT !.i = @ + 1, !.j = 0]

\* Lines 318-323: one step of the two loops with the call backtrack(i, j, 0),
\* or the return False after them.
word_search_For ==
    /\ op = "word_search" /\ pc = "for"
    /\ IF local.i < local.rows /\ local.cols > 0
       THEN LET r == word_search_backtrack(input.board, input.word, local.i, local.j, 0) IN
            /\ input' = [input EXCEPT !.board = r.board]
            /\ IF r.found
               THEN ret' = TRUE /\ pc' = "done" /\ UNCHANGED local
               ELSE local' = NextCell(local) /\ UNCHANGED <<pc, ret>>
       ELSE /\ ret' = FALSE /\ pc' = "done" /\ UNCHANGED <<input, local>>
    /\ UNCHANGED op

\* ---- WordProblems.word_search_ii

\* A TrieNode of the trie of lines 332-339 is the string that leads to it
\* from the root.  p is a prefix of w:
IsPrefix(p, w) == Len(p) <= Len(w) /\ SubSeq(w, 1, Len(p)) = p

\* char in node.children
InChildren(words, node, char) == \E w \in words : IsPrefix(Append(node, char), w)

\* Line 359: the neighbours in the order of the loop.
word_search_ii_Neighbours == <<<<0, 1>>, <<0, -1>>, <<1, 0>>, <<-1, 0>>>>

\* Lines 344-365.  backtrack(row, col, node) on the state st = [board,
\* result, taken] as it is at the call, giving the state as the call leaves
\* it; taken holds the nodes whose word line 354 has set to None, and a node
\* has a word when it ends one of the words and is not the root's empty word.
\* word_search_ii_Each is the loop of lines 359-360 from the d-th pair on.
RECURSIVE word_search_ii_backtrack(_, _, _, _, _)
RECURSIVE word_search_ii_Each(_, _, _, _, _, _)
word_search_ii_backtrack(st, words, row, col, node) ==
    IF \/ row < 0 \/ row >= Len(st.board)
       \/ col < 0 \/ col >= Len(st.board[1])
       \/ ~InChildren(words, node, Cell(st.board, row, col))
    THEN st
    ELSE LET char == Cell(st.board, row, col)
             child == Append(node, char)
             hasWord == child \in words /\ child \notin st.taken
             marked == [board |-> SetCell(st.board, row, col, "#"),
                        result |-> IF hasWord THEN Append(st.result, child) ELSE st.result,
                        taken |-> IF hasWord THEN st.taken \cup {child} ELSE st.taken]
             after == word_search_ii_Each(marked, words, row, col, child, 1)
         IN [after EXCEPT !.board = SetCell(@, row, col, char)]

word_search_ii_Each(st, words, row, col, node, d) ==
    IF d > Len(word_search_ii_Neighbours) THEN st
    ELSE word_search_ii_Each(
             word_search_ii_backtrack(st, words,
                                      row + word_search_ii_Neighbours[d][1],
                                      col + word_search_ii_Neighbours[d][2], node),
             words, row, col, node, d + 1)

\* Lines 367-371: one step of the two loops with the call backtrack(i, j,
\* root), or the return of result after them.
word_search_ii_For ==
    /\ op = "word_search_ii" /\ pc = "for"
    /\ IF local.i < local.rows /\ local.cols > 0
       THEN LET st == word_search_ii_backtrack(
                          [board |-> input.board, result |-> local.result,
                           taken |-> local.taken],
                          input.words, local.i, local.j, <<>>) IN
            /\ input' = [input EXCEPT !.board = st.board]
            /\ local' = [NextCell(local) EXCEPT !.result = st.result,
                                                !.taken = st.taken]
            /\ UNCHANGED <<pc, ret>>
       ELSE /\ ret' = local.result /\ pc' = "done" /\ UNCHANGED <<input, local>>
    /\ UNCHANGED op

NextWS ==
    \/ word_search_Call
    \/ word_search_For
    \/ word_search_ii_For

SpecWS == InitWS /\ [][NextWS]_vars

\* ---- the claim about the word searches

\* C25: when word_search or word_search_ii returns, every cell of the board
\* holds the character it held when the function was called.
C25_BoardRestored ==
    (Returned("word_search") \/ Returned("word_search_ii"))
    => input.board = input.given

\* word_search has returned True for a word of three letters, which it found
\* from a cell other than the first: an earlier search had marked cells and
\* failed, and the successful one left through the `or` chain.
C25_Witness ==
    /\ Returned("word_search")
    /\ ret = TRUE
    /\ Len(input.word) = 3
    /\ local.i + local.j > 0

(***************************************************************************)
(* tree_bfs.py: TreeValidation.is_complete_tree,                           *)
(* TreeLevelProblems.level_with_minimum_nodes                              *)
(***************************************************************************)

\* A binary tree has at most MaxTreeNodes nodes.  A TreeNode is named by its
\* place in the tree: the root is 1 and the left and right child of the node
\* k are 2k and 2k + 1; NullNode is None.  input.left and input.right are the
\* fields of the nodes and input.root is the argument.  Neither function
\* reads val.
MaxTreeNodes == 5

\* The places a node can be added at: the root of the empty tree, or a
\* missing child of a node of the tree.
Frontier(T) == IF T = {} THEN {1} ELSE {c \in UNION {{2 * k, 2 * k + 1} : k \in T} : c \notin T}

\* The sets of places of the trees of at most n nodes.
RECURSIVE TreesUpTo(_)
TreesUpTo(n) ==
    IF n = 0 THEN {{}}
    ELSE LET smaller == TreesUpTo(n - 1)
         IN smaller \cup UNION {{T \cup {c} : c \in Frontier(T)} : T \in smaller}

TBOps == {"is_complete_tree", "level_with_minimum_nodes"}

InitTB ==
    /\ op \in TBOps
    /\ \E T \in TreesUpTo(MaxTreeNodes) :
           input = [root |-> IF T = {} THEN NullNode ELSE 1,
                    left |-> [k \in T |-> IF 2 * k \in T THEN 2 * k ELSE NullNode],
                    right |-> [k \in T |-> IF 2 * k + 1 \in T THEN 2 * k + 1 ELSE NullNode]]
    /\ local = [queue |-> <<>>]
    /\ pc = "call"
    /\ ret = NoRet

\* ---- TreeValidation.is_complete_tree

\* Lines 256-260.  local.dequeued lists what popleft has returned so far.
is_complete_tree_Call ==
    /\ op = "is_complete_tree" /\ pc = "call"
    /\ IF input.root = NullNode
       THEN /\ ret' = TRUE /\ pc' = "done" /\ UNCHANGED local
       ELSE /\ local' = [queue |-> <<input.root>>, null_found |-> FALSE,
                         dequeued |-> <<>>]
            /\ pc' = "while"
            /\ UNCHANGED ret
    /\ UNCHANGED <<op, input>>

\* Lines 270-271 appending the children that are not None only.
is_complete_tree_While_real ==
    /\ op = "is_complete_tree" /\ pc = "while"
    /\ IF local.queue # <<>>
       THEN LET node == Head(local.queue)
                rest == Tail(local.queue)
                dequeued == Append(local.dequeued, node)
            IN
            IF node = NullNode
            THEN /\ local' = [queue |-> rest, null_found |-> TRUE, dequeued |-> dequeued]
                 /\ UNCHANGED <<pc, ret>>
            ELSE IF local.null_found
            THEN /\ local' = [local EXCEPT !.queue = rest, !.dequeued = dequeued]
                 /\ ret' = FALSE /\ pc' = "done"
            ELSE /\ local' = [local EXCEPT
                                !.queue = rest \o SelectSeq(<<input.left[node],
                                                              input.right[node]>>,
                                                            LAMBDA c : c # NullNode),
                                !.dequeued = dequeued]
                 /\ UNCHANGED <<pc, ret>>
       ELSE /\ ret' = TRUE /\ pc' = "done" /\ UNCHANGED local
    /\ UNCHANGED <<op, input>>

\* Lines 262-272: one evaluation of `while queue` with its body.
is_complete_tree_While ==
    /\ op = "is_complete_tree" /\ pc = "while"
    /\ IF local.queue # <<>>
       THEN LET node == Head(local.queue)
                rest == Tail(local.queue)
                dequeued == Append(local.dequeued, node)
            IN
            IF node = NullNode
            THEN /\ local' = [queue |-> rest, null_found |-> TRUE, dequeued |-> dequeued]
                 /\ UNCHANGED <<pc, ret>>
            ELSE IF local.null_found
            THEN /\ local' = [local EXCEPT !.queue = rest, !.dequeued = dequeued]
                 /\ ret' = FALSE /\ pc' = "done"
            ELSE /\ local' = [local EXCEPT
                                !.queue = rest \o <<input.left[node], input.right[node]>>,
                                !.dequeued = dequeued]
                 /\ UNCHANGED <<pc, ret>>
       ELSE /\ ret' = TRUE /\ pc' = "done" /\ UNCHANGED local
    /\ UNCHANGED <<op, input>>

\* ---- TreeLevelProblems.level_with_minimum_nodes

\* Lines 167-173; min_count is <<>> for float('inf') and <<n>> for n.
level_with_minimum_nodes_Call ==
    /\ op = "level_with_minimum_nodes" /\ pc = "call"
    /\ IF input.root = NullNode
       THEN /\ ret' = -1 /\ pc' = "done" /\ UNCHANGED local
       ELSE /\ local' = [min_level |-> 0, min_count |-> <<>>,
                         queue |-> <<input.root>>, level |-> 0]
            /\ pc' = "while"
            /\ UNCHANGED ret
    /\ UNCHANGED <<op, input>>

\* Lines 182-188: the queue after the nodes of q were dequeued in order and
\* the children they have were appended to rest.
RECURSIVE DequeueLevel(_, _)
DequeueLevel(q, rest) ==
    IF q = <<>> THEN rest
    ELSE DequeueLevel(Tail(q),
                      rest \o SelectSeq(<<input.left[Head(q)], input.right[Head(q)]>>,
                                        LAMBDA c : c # NullNode))

\* Line 178 as <= : a level as small as the smallest so far replaces it.
level_with_minimum_nodes_While_le ==
    /\ op = "level_with_minimum_nodes" /\ pc = "while"
    /\ IF local.queue # <<>>
       THEN LET level_size == Len(local.queue)
                smaller == local.min_count = <<>> \/ level_size <= local.min_count[1]
            IN
            /\ local' = [min_level |-> IF smaller THEN local.level ELSE local.min_level,
                         min_count |-> IF smaller THEN <<level_size>> ELSE local.min_count,
                         queue |-> DequeueLevel(local.queue, <<>>),
                         level |-> local.level + 1]
            /\ UNCHANGED <<pc, ret>>
       ELSE /\ ret' = local.min_level /\ pc' = "done" /\ UNCHANGED local
    /\ UNCHANGED <<op, input>>

\* Lines 175-191: one evaluation of `while queue` with the level it handles.
level_with_minimum_nodes_While ==
    /\ op = "level_with_minimum_nodes" /\ pc = "while"
    /\ IF local.queue # <<>>
       THEN LET level_size == Len(local.queue)
                smaller == local.min_count = <<>> \/ level_size < local.min_count[1]
            IN
            /\ local' = [min_level |-> IF smaller THEN local.level ELSE local.min_level,
                         min_count |-> IF smaller THEN <<level_size>> ELSE local.min_count,
                         queue |-> DequeueLevel(local.queue, <<>>),
                         level |-> local.level + 1]
            /\ UNCHANGED <<pc, ret>>
       ELSE /\ ret' = local.min_level /\ pc' = "done" /\ UNCHANGED local
    /\ UNCHANGED <<op, input>>

NextTB ==
    \/ is_complete_tree_Call
    \/ is_complete_tree_While
    \/ level_with_minimum_nodes_Call
    \/ level_with_minimum_nodes_While

SpecTB == InitTB /\ [][NextTB]_vars

\* ---- the claims about the trees

\* The places of the nodes of the tree.
TreeNodes == DOMAIN input.left

\* Every level but the last is full and the last is filled from the left:
\* the nodes have the places 1..n.
IsComplete == TreeNodes = 1..Cardinality(TreeNodes)

\* In the list d of dequeued entries a node comes after a None.
NodeAfterNull(d) == \E i, j \in 1..Len(d) : i < j /\ d[i] = NullNode /\ d[j] # NullNode

\* C26: is_complete_tree returns True exactly for the complete trees, the
\* empty tree among them; while it runs no node has been dequeued after a
\* None, and when it returns False the entry dequeued last is the first node
\* that came after a None.
C26_CompleteTree ==
    op = "is_complete_tree"
    => /\ pc = "done" => ret = IsComplete
       /\ pc = "while" => ~NodeAfterNull(local.dequeued)
       /\ (pc = "done" /\ ret = FALSE)
          => /\ NodeAfterNull(local.dequeued)
             /\ ~NodeAfterNull(SubSeq(local.dequeued, 1, Len(local.dequeued) - 1))

\* is_complete_tree has returned False for a tree whose only gap is in the
\* last level: the node 2 has a right child and no left child.
C26_Witness ==
    /\ Returned("is_complete_tree")
    /\ ret = FALSE
    /\ TreeNodes = {1, 2, 3, 5}

\* C30: level_with_minimum_nodes returns 0 for every tree that has a node and
\* -1 for the empty tree.
C30_MinimumLevel ==
    Returned("level_with_minimum_nodes")
    => ret = IF input.root = NullNode THEN -1 ELSE 0

\* level_with_minimum_nodes has returned for a tree of three levels whose
\* last level has one node, as few as level 0.
C30_Witness ==
    /\ Returned("level_with_minimum_nodes")
    /\ TreeNodes = {1, 2, 3, 4}
    /\ local.level = 3
    /\ ret = 0

(***************************************************************************)
(* fast_slow_pointers.py: circular_array_loop                              *)
(***************************************************************************)

\* nums has length 0..MaxArr and its elements are the nonzero integers
\* -MaxJump..MaxJump.  ret is a Boolean from the start and means the value
\* returned only at pc = "done".
MaxArr == 4
MaxJump == 3

InitCA ==
    /\ op = "circular_array_loop"
    /\ input \in [nums : SeqsUpTo((-MaxJump..MaxJump) \ {0}, MaxArr)]
    /\ local = [i |-> 0]
    /\ pc = "call"
    /\ ret = FALSE

\* Lines 198-199; Python's % with a positive modulus is never negative, as
\* the % of the integers here.
get_next_index(nums, i) == (i + At(nums, i)) % Len(nums)

\* Line 201, the start of `for i in range(len(nums))`.
circular_array_loop_Call ==
    /\ op = "circular_array_loop" /\ pc = "call"
    /\ local' = [i |-> 0, is_forward |-> TRUE, slow |-> 0, fast |-> 0]
    /\ pc' = "for"
    /\ UNCHANGED <<op, input, ret>>

\* Lines 201-203 and 223: one step of the outer loop up to `while True`, or
\* the return False after it.
circular_array_loop_For ==
    /\ op = "circular_array_loop" /\ pc = "for"
    /\ IF local.i < Len(input.nums)
       THEN /\ local' = [local EXCEPT !.is_forward = At(input.nums, local.i) >= 0,
                                      !.slow = local.i, !.fast = local.i]
            /\ pc' = "while"
            /\ UNCHANGED ret
       ELSE /\ ret' = FALSE /\ pc' = "done" /\ UNCHANGED local
    /\ UNCHANGED <<op, input>>

\* Lines 217-219 left out: a cursor meeting on a cycle of one element counts.
circular_array_loop_While_single ==
    /\ op = "circular_array_loop" /\ pc = "while"
    /\ LET nums == input.nums
           slow == get_next_index(nums, local.slow)
           fast == get_next_index(nums, get_next_index(nums, local.fast))
       IN
       IF \/ (At(nums, slow) >= 0) # local.is_forward
          \/ (At(nums, fast) >= 0) # local.is_forward
          \/ (At(nums, get_next_index(nums, fast)) >= 0) # local.is_forward
       THEN /\ local' = [local EXCEPT !.slow = slow, !.fast = fast, !.i = @ + 1]
            /\ pc' = "for"
            /\ UNCHANGED ret
       ELSE IF slow = fast
       THEN /\ local' = [local EXCEPT !.slow = slow, !.fast = fast]
            /\ ret' = TRUE /\ pc' = "done"
       ELSE /\ local' = [local EXCEPT !.slow = slow, !.fast = fast]
            /\ UNCHANGED <<pc, ret>>
    /\ UNCHANGED <<op, input>>

\* Lines 205-221: one pass of `while True`; a break goes on with the next i.
circular_array_loop_While ==
    /\ op = "circular_array_loop" /\ pc = "while"
    /\ LET nums == input.nums
           slow == get_next_index(nums, local.slow)
           fast == get_next_index(nums, get_next_index(nums, local.fast))
       IN
       IF \/ (At(nums, slow) >= 0) # local.is_forward
          \/ (At(nums, fast) >= 0) # local.is_forward
          \/ (At(nums, get_next_index(nums, fast)) >= 0) # local.is_forward
       THEN /\ local' = [local EXCEPT !.slow = slow, !.fast = fast, !.i = @ + 1]
            /\ pc' = "for"
            /\ UNCHANGED ret
       ELSE IF slow = fast
       THEN IF slow = get_next_index(nums, slow)
            THEN /\ local' = [local EXCEPT !.slow = slow, !.fast = fast, !.i = @ + 1]
                 /\ pc' = "for"
                 /\ UNCHANGED ret
            ELSE /\ local' = [local EXCEPT !.slow = slow, !.fast = fast]
                 /\ ret' = TRUE /\ pc' = "done"
       ELSE /\ local' = [local EXCEPT !.slow = slow, !.fast = fast]
            /\ UNCHANGED <<pc, ret>>
    /\ UNCHANGED <<op, input>>

NextCA ==
    \/ circular_array_loop_Call
    \/ circular_array_loop_For
    \/ circular_array_loop_While

SpecCA == InitCA /\ [][NextCA]_vars

\* The call is not interrupted: a step that can be taken is taken.  Every
\* step changes pc or local.
SpecCAFair == SpecCA /\ WF_<<pc, local>>(NextCA)

\* ---- the claim about circular_array_loop

\* The index k jumps from v lead to.
RECURSIVE Jump(_, _, _)
Jump(nums, v, k) == IF k = 0 THEN v ELSE Jump(nums, get_next_index(nums, v), k - 1)

\* v lies on a cycle of the jumps that has more than one element, all of the
\* sign of nums[v].
OnSameSignCycle(nums, v) ==
    /\ get_next_index(nums, v) # v
    /\ \E n \in 2..Len(nums) :
        /\ Jump(nums, v, n) = v
        /\ \A k \in 0..(n - 1) : (At(nums, Jump(nums, v, k)) >= 0) = (At(nums, v) >= 0)

C27_Answer ==
    IF Returned("circular_array_loop")
    THEN ret = \E v \in Indices(input.nums) : OnSameSignCycle(input.nums, v)
    ELSE TRUE

\* C27: circular_array_loop returns, and it returns True exactly when the
\* jumps have a cycle of more than one element whose elements all have the
\* same sign.
C27_CircularArrayLoop == []C27_Answer /\ <>(pc = "done")

\* The call has returned True for a cycle found from a start index other than
\* 0, in an array that also has an element that jumps to itself.
C27_Witness ==
    /\ Returned("circular_array_loop")
    /\ ret = TRUE
    /\ local.i > 0
    /\ \E v \in Indices(input.nums) : get_next_index(input.nums, v) = v

(***************************************************************************)
(* two_pointers.py: the loop invariant of TwoPointers.sort_colors          *)
(***************************************************************************)

\* What holds of the three cursors whenever `current <= right` is evaluated.
C28_Partition ==
    (op = "sort_colors" /\ pc = "while")
    => /\ \A k \in Indices(input.nums) :
            /\ k < local.left => At(input.nums, k) = 0
            /\ (local.left <= k /\ k < local.current) => At(input.nums, k) = 1
            /\ k > local.right => At(input.nums, k) = 2
       /\ local.left <= local.current

\* A pass of the loop that swaps with right, which is the pass that moves
\* right, leaves current where it is.
C28_SwapRightKeepsCurrent ==
    (op = "sort_colors" /\ pc = "while" /\ pc' = "while"
        /\ local'.right # local.right)
    => local'.current = local.current

\* C28: at every evaluation of the loop condition of sort_colors the
\* elements below left are 0, those from left up to current are 1, those
\* above right are 2 and left <= current; and a swap with right does not
\* move current.
C28_DutchFlag == []C28_Partition /\ [][C28_SwapRightKeepsCurrent]_vars

\* The condition is evaluated after a swap with right has brought another 2
\* to current, with 0s below left and 1s between left and current.
C28_Witness ==
    /\ op = "sort_colors" /\ pc = "while"
    /\ 0 < local.left /\ local.left < local.current
    /\ local.current <= local.right /\ local.right < Len(input.nums) - 1
    /\ At(input.nums, local.current) = 2

(***************************************************************************)
(* fast_slow_pointers.py: termination of has_cycle and find_cycle_start    *)
(***************************************************************************)

\* The calls of InitFS with ret of the type of the value returned from the
\* start (a Boolean for has_cycle, a node or NullNode for find_cycle_start);
\* ret means the value returned only at pc = "done".
InitFSTyped ==
    /\ op \in FSOps
    /\ \E n \in 0..MaxNodes :
          input \in [head : {IF n = 0 THEN NullNode ELSE 1},
                     next : [1..n -> 0..n]]
    /\ local = [slow |-> NullNode, fast |-> NullNode, current |-> NullNode]
    /\ pc = "call"
    /\ ret = IF op = "has_cycle" THEN FALSE ELSE NullNode

\* The call is not interrupted: a step that can be taken is taken.  A pass
\* of a loop that left pc and the cursors as they were would count as no step.
SpecFSFair == InitFSTyped /\ [][NextFS]_vars /\ WF_<<pc, local>>(NextFS)

\* C29: has_cycle and find_cycle_start return on every chain: the first loop
\* is left after finitely many passes, because fast reached the end or the
\* cursors met, and so is the second loop of find_cycle_start, because
\* current and slow met.
C29_Terminates ==
    /\ (pc = "while") ~> (pc # "while")
    /\ (pc = "find") ~> (pc = "done")
    /\ <>(pc = "done")

\* find_cycle_start has returned a self-linked node that is not head: both
\* loops ran, the second over a tail.
C29_Witness ==
    /\ Returned("find_cycle_start")
    /\ ret # NullNode /\ ret # input.head
    /\ NextOf(ret) = ret

====
